---- MODULE Spec2Model ----
(***************************************************************************)
(* Position-accounting engine of the portfolio dashboard                   *)
(* (positionCalculator.js): calculatePositions folds an initial-balance    *)
(* snapshot and a double-entry ledger into a position map.                 *)
(*                                                                         *)
(* Numbers: JavaScript doubles are modelled as exact rationals <<n, d>>    *)
(* in lowest terms with d > 0, so floating-point rounding is abstracted    *)
(* away; Undefined models an absent (null / undefined) numeric field.      *)
(* Strings: "" models an absent (null / undefined) string field.           *)
(***************************************************************************)
EXTENDS Integers, Sequences, FiniteSets, TLC

(***************************************************************************)
(* Bounds of the model                                                     *)
(***************************************************************************)
MaxInit == 1

MaxLedger == 2

\* positions held when a request enriches the map
MaxHeld == 3

(***************************************************************************)
(* Exact rational arithmetic                                               *)
(***************************************************************************)
AbsInt(n) == IF n < 0 THEN -n ELSE n

RECURSIVE GCD(_, _)
GCD(a, b) == IF b = 0 THEN a ELSE GCD(b, a % b)

Norm(n, d) ==
  LET s == IF d < 0 THEN -1 ELSE 1
      g == GCD(AbsInt(n), AbsInt(d))
  IN  <<(s * n) \div g, (s * d) \div g>>

Undefined == <<0, 0>>

Zero == <<0, 1>>

One == <<1, 1>>

RNeg(a) == <<-a[1], a[2]>>

RAbs(a) == <<AbsInt(a[1]), a[2]>>

RAdd(a, b) ==
  LET g == GCD(a[2], b[2])
      l == (a[2] \div g) * b[2]
  IN  Norm(a[1] * (l \div a[2]) + b[1] * (l \div b[2]), l)

RSub(a, b) == RAdd(a, RNeg(b))

RMul(a, b) ==
  LET g1 == GCD(AbsInt(a[1]), b[2])
      g2 == GCD(AbsInt(b[1]), a[2])
  IN  Norm((a[1] \div g1) * (b[1] \div g2), (a[2] \div g2) * (b[2] \div g1))

\* JavaScript division: x / 0 is Infinity (<<1, 0>> or <<-1, 0>>) and 0 / 0
\* is NaN (<<0, 0>>); neither throws
RDiv(a, b) ==
  LET nan(x) == x[1] = 0 /\ x[2] = 0
      inf(x) == x[1] # 0 /\ x[2] = 0
      sgn(x) == IF x[1] < 0 THEN -1 ELSE 1
  IN  IF nan(a) \/ nan(b) THEN <<0, 0>>
      ELSE IF inf(b) THEN (IF inf(a) THEN <<0, 0>> ELSE <<0, 1>>)
      ELSE IF b[1] = 0 THEN (IF a[1] = 0 THEN <<0, 0>> ELSE <<sgn(a), 0>>)
      ELSE IF inf(a) THEN <<sgn(a) * sgn(b), 0>>
      ELSE RMul(a, Norm(b[2], b[1]))

\* a < b, comparing integer parts first so that a dust value can be
\* compared with an ordinary amount
RLt(a, b) ==
  LET fa == a[1] \div a[2]
      fb == b[1] \div b[2]
      l  == (a[2] \div GCD(a[2], b[2])) * b[2]
  IN  IF fa # fb THEN fa < fb
      ELSE (a[1] % a[2]) * (l \div a[2]) < (b[1] % b[2]) * (l \div b[2])

RLe(a, b) == a = b \/ RLt(a, b)

RMax(a, b) == IF RLt(a, b) THEN b ELSE a

RMin(a, b) == IF RLt(b, a) THEN b ELSE a

\* Number(x) || 0
NumOrZero(x) == IF x = Undefined THEN Zero ELSE x

\* Number(x) > 0
IsPositive(x) == x # Undefined /\ x[1] > 0

(***************************************************************************)
(* Constants and guards                                                    *)
(***************************************************************************)
DUST == <<1, 1000000000>>

DefaultFxRate == <<35, 1>>

\* String.prototype.toUpperCase on the tickers of the model
ToUpperCase(t) ==
  CASE t = "aapl" -> "AAPL"
    [] t = "btc"  -> "BTC"
    [] t = "thb"  -> "THB"
    [] t = "usd"  -> "USD"
    [] t = "frax" -> "FRAX"
    [] t = "cash-thb" -> "CASH-THB"
    [] t = "usd-cash" -> "USD-CASH"
    [] t = "eur-thb"  -> "EUR-THB"
    [] OTHER      -> t

StartsWith(s, p) == Len(s) >= Len(p) /\ SubSeq(s, 1, Len(p)) = p

isCashAsset(ticker) ==
  IF ticker = "" THEN FALSE
  ELSE LET t == ToUpperCase(ticker)
       IN  \/ StartsWith(t, "CASH-")
           \/ t \in {"USD", "THB", "USDT", "USDC", "BUSD", "DAI", "TUSD"}

isTHBCash(ticker) ==
  IF ticker = "" THEN FALSE
  ELSE LET t == ToUpperCase(ticker)
       IN  t = "THB" \/ t = "CASH-THB"

\* 1 / (fxRateUSDTHB || 35) for THB cash, 1.0 otherwise
cashFaceValueUSD(ticker, fxRateUSDTHB) ==
  IF isTHBCash(ticker)
  THEN RDiv(One, IF fxRateUSDTHB \in {Undefined, Zero}
                 THEN DefaultFxRate ELSE fxRateUSDTHB)
  ELSE One

(***************************************************************************)
(* Position schema; the position map is a sequence in insertion order      *)
(* (the iteration order of a JavaScript object with string keys)           *)
(***************************************************************************)
createPosition(ticker, assetType, costCurrency) ==
  [ ticker        |-> ticker,
    asset_type    |-> IF assetType = "" THEN "other" ELSE assetType,
    quantity      |-> Zero,
    avg_cost      |-> Zero,
    cost_basis    |-> Zero,
    cost_currency |-> IF costCurrency = "" THEN "USD" ELSE costCurrency,
    realized_pnl  |-> Zero ]

HasKey(ps, key) == \E k \in 1..Len(ps) : ps[k].ticker = key

KeyIdx(ps, key) == CHOOSE k \in 1..Len(ps) : ps[k].ticker = key

\* getPos: the map after get-or-create and the asset_type upgrade; the slot
\* itself is then KeyIdx(map, ToUpperCase(ticker))
getPos(ps, ticker, assetType, costCurrency) ==
  LET key == ToUpperCase(ticker)
      ps1 == IF HasKey(ps, key) THEN ps
             ELSE Append(ps, createPosition(key, assetType,
                                 IF costCurrency = "" THEN "USD" ELSE costCurrency))
      k   == KeyIdx(ps1, key)
  IN  IF assetType # "" /\ assetType # "other" /\ ps1[k].asset_type = "other"
      THEN [ps1 EXCEPT ![k].asset_type = assetType]
      ELSE ps1

(***************************************************************************)
(* STEP 1: seed one initial-position row                                   *)
(***************************************************************************)
\* a seed whose non-cash cost basis keeps the sign of the quantity
SeedRowSignedCostBasis(ps, init, fxRateUSDTHB) ==
  IF init.ticker = "" THEN ps
  ELSE
    LET ticker  == ToUpperCase(init.ticker)
        qty     == NumOrZero(init.quantity)
        avgCost == NumOrZero(init.avg_cost)
        cur     == IF init.cost_currency = "THB" THEN "THB" ELSE "USD"
        ps1     == getPos(ps, ticker, init.asset_type, cur)
        k       == KeyIdx(ps1, ticker)
        faceUSD == cashFaceValueUSD(ticker, fxRateUSDTHB)
    IN  IF isCashAsset(ticker)
        THEN [ps1 EXCEPT ![k].quantity      = qty,
                         ![k].avg_cost      = faceUSD,
                         ![k].cost_basis    = RMul(qty, faceUSD),
                         ![k].cost_currency = "USD"]
        ELSE [ps1 EXCEPT ![k].quantity      = qty,
                         ![k].avg_cost      = avgCost,
                         ![k].cost_basis    = RMul(qty, avgCost),
                         ![k].cost_currency = cur]

\* a seed that trusts the stated avg_cost of every row, cash included
SeedRowTrustingStatedAvg(ps, init, fxRateUSDTHB) ==
  IF init.ticker = "" THEN ps
  ELSE
    LET ticker  == ToUpperCase(init.ticker)
        qty     == NumOrZero(init.quantity)
        avgCost == NumOrZero(init.avg_cost)
        cur     == IF init.cost_currency = "THB" THEN "THB" ELSE "USD"
        ps1     == getPos(ps, ticker, init.asset_type, cur)
        k       == KeyIdx(ps1, ticker)
    IN  [ps1 EXCEPT ![k].quantity      = qty,
                    ![k].avg_cost      = avgCost,
                    ![k].cost_basis    = RMul(RAbs(qty), avgCost),
                    ![k].cost_currency = cur]

SeedRow(ps, init, fxRateUSDTHB) ==
  IF init.ticker = "" THEN ps
  ELSE
    LET ticker  == ToUpperCase(init.ticker)
        qty     == NumOrZero(init.quantity)
        avgCost == NumOrZero(init.avg_cost)
        cur     == IF init.cost_currency = "THB" THEN "THB" ELSE "USD"
        ps1     == getPos(ps, ticker, init.asset_type, cur)
        k       == KeyIdx(ps1, ticker)
        faceUSD == cashFaceValueUSD(ticker, fxRateUSDTHB)
    IN  IF isCashAsset(ticker)
        THEN [ps1 EXCEPT ![k].quantity      = qty,
                         ![k].avg_cost      = faceUSD,
                         ![k].cost_basis    = RMul(qty, faceUSD),
                         ![k].cost_currency = "USD"]
        ELSE [ps1 EXCEPT ![k].quantity      = qty,
                         ![k].avg_cost      = avgCost,
                         ![k].cost_basis    = RMul(RAbs(qty), avgCost),
                         ![k].cost_currency = cur]

(***************************************************************************)
(* STEP 2: chronological replay                                            *)
(***************************************************************************)
\* new Date(transaction_date): the timestamps (days since the epoch) of the
\* date strings of the model; a date-only string is UTC midnight
DateValue(d) ==
  CASE d = "2024-01-05"               -> 19727
    [] d = "2024-01-05T00:00:00.000Z" -> 19727
    [] d = "2024-01-06"               -> 19728
    [] d = "2024-01-07"               -> 19729

\* the comparator (a, b) => new Date(a.transaction_date) - new Date(b.transaction_date)
CompareDates(a, b) == DateValue(a.transaction_date) - DateValue(b.transaction_date)

\* an unstable sort: an element goes before the earlier elements it ties with
RECURSIVE InsertBeforeTies(_, _, _)
InsertBeforeTies(order, n, txs) ==
  IF order = <<>> THEN <<n>>
  ELSE IF CompareDates(txs[order[Len(order)]], txs[n]) >= 0
       THEN Append(InsertBeforeTies(SubSeq(order, 1, Len(order) - 1), n, txs),
                   order[Len(order)])
       ELSE Append(order, n)

\* Array.prototype.sort is stable: an element goes after every earlier
\* element that does not compare greater than it
RECURSIVE InsertStable(_, _, _)
InsertStable(order, n, txs) ==
  IF order = <<>> THEN <<n>>
  ELSE IF CompareDates(txs[order[Len(order)]], txs[n]) > 0
       THEN Append(InsertStable(SubSeq(order, 1, Len(order) - 1), n, txs),
                   order[Len(order)])
       ELSE Append(order, n)

RECURSIVE SortPrefix(_, _)
SortPrefix(txs, n) ==
  IF n = 0 THEN <<>> ELSE InsertStable(SortPrefix(txs, n - 1), n, txs)

\* no sort at all: the entries stay in input order
InputOrder(txs) == [k \in 1..Len(txs) |-> k]

\* the indices of the input array in replay order
SortOrder(txs) == SortPrefix(txs, Len(txs))

\* [...transactions].sort(...): the sorted copy
SortedCopy(txs) == [k \in 1..Len(txs) |-> txs[SortOrder(txs)[k]]]

\* a sort in place: transactions.sort(...) without the copy
InputSortedInPlace(txs) == SortedCopy(txs)

\* what the caller's array holds after the sort: the copy is sorted, the
\* input is left as it was
InputAfterSort(txs) == txs

\* destructuring default: transaction_currency = 'USD'
TxCurrency(tx) ==
  IF tx.transaction_currency = "" THEN "USD" ELSE tx.transaction_currency

\* Number(fx_rate_at_time) > 0 ? Number(fx_rate_at_time) : fxRateUSDTHB
TxFxRate(tx, fxRateUSDTHB) ==
  IF IsPositive(tx.fx_rate_at_time) THEN tx.fx_rate_at_time ELSE fxRateUSDTHB

\* variant: a TO side is replayed whenever it names a ticker
ToSideNamed(tx) == tx.to_ticker # ""

ToSideActive(tx) == tx.to_ticker # "" /\ IsPositive(tx.to_amount)

FromSideActive(tx) == tx.from_ticker # "" /\ IsPositive(tx.from_amount)

\* which branch of the TO side an entry takes on the map ps
ToBranch(ps, tx) ==
  IF ~ToSideActive(tx) THEN "skip"
  ELSE IF isCashAsset(tx.to_ticker) THEN "cash"
  ELSE LET key == ToUpperCase(tx.to_ticker)
       IN  IF HasKey(ps, key) /\ ps[KeyIdx(ps, key)].quantity[1] < 0
           THEN "cover" ELSE "buy"

\* which branch of the FROM side an entry takes on the map ps
FromBranch(ps, tx) ==
  IF ~FromSideActive(tx) THEN "skip"
  ELSE IF isCashAsset(tx.from_ticker) THEN "cash"
  ELSE LET key == ToUpperCase(tx.from_ticker)
       IN  IF HasKey(ps, key) /\ ps[KeyIdx(ps, key)].quantity[1] > 0
           THEN "sell" ELSE "short"

\* a fee charged whatever its currency
FeesOnAnySide(tx, ticker) == RAbs(NumOrZero(tx.fees))

\* (fee_currency === ticker) ? Math.abs(Number(fees)) : 0
FeesOnSide(tx, ticker) ==
  IF tx.fee_currency = ticker THEN RAbs(NumOrZero(tx.fees)) ELSE Zero

\* variant: cash received is averaged into the carried cost like a buy
CashReceivedAveraged(toPos, tx, txFxRate) ==
  LET unitsIn == tx.to_amount
      face    == cashFaceValueUSD(tx.to_ticker, txFxRate)
      q       == RAdd(toPos.quantity, unitsIn)
      cb      == RAdd(toPos.cost_basis, RMul(unitsIn, face))
  IN  [toPos EXCEPT !.quantity      = q,
                    !.avg_cost      = IF q[1] > 0 THEN RDiv(cb, q) ELSE Zero,
                    !.cost_basis    = cb,
                    !.cost_currency = "USD"]

\* receiving cash: add units at face value
CashReceived(toPos, tx, txFxRate) ==
  LET unitsIn == tx.to_amount
      face    == cashFaceValueUSD(tx.to_ticker, txFxRate)
      q       == RAdd(toPos.quantity, unitsIn)
  IN  [toPos EXCEPT !.quantity      = q,
                    !.avg_cost      = face,
                    !.cost_basis    = RMul(RAbs(q), face),
                    !.cost_currency = "USD"]

\* variant: the whole received amount counts as covered
ShortCoverWholeAmount(toPos, tx) ==
  LET unitsCovered  == tx.to_amount
      cashPaid      == NumOrZero(tx.from_amount)
      pricePerUnit  == IF unitsCovered[1] > 0
                       THEN RDiv(cashPaid, unitsCovered) ELSE Zero
      shortRealized == RMul(RSub(toPos.avg_cost, pricePerUnit), unitsCovered)
      q             == RAdd(toPos.quantity, unitsCovered)
  IN  [toPos EXCEPT !.realized_pnl = RAdd(toPos.realized_pnl, shortRealized),
                    !.quantity     = q,
                    !.cost_basis   = RMul(RAbs(q), toPos.avg_cost)]

\* SHORT COVER: buying back a short position
ShortCover(toPos, tx) ==
  LET unitsIn       == tx.to_amount
      unitsCovered  == RMin(unitsIn, RAbs(toPos.quantity))
      cashPaid      == NumOrZero(tx.from_amount)
      pricePerUnit  == IF unitsCovered[1] > 0
                       THEN RDiv(cashPaid, unitsCovered) ELSE Zero
      shortRealized == RMul(RSub(toPos.avg_cost, pricePerUnit), unitsCovered)
      q             == RAdd(toPos.quantity, unitsCovered)
  IN  [toPos EXCEPT !.realized_pnl = RAdd(toPos.realized_pnl, shortRealized),
                    !.quantity     = q,
                    !.cost_basis   = RMul(RAbs(q), toPos.avg_cost)]

\* LONG BUY: weighted-average cost basis
LongBuy(toPos, tx) ==
  LET unitsIn       == tx.to_amount
      cashPaid      == NumOrZero(tx.from_amount)
      effectiveFees == FeesOnSide(tx, tx.to_ticker)
      totalCostIn   == RAdd(cashPaid, effectiveFees)
      q             == RAdd(toPos.quantity, unitsIn)
      cb            == RAdd(toPos.cost_basis, totalCostIn)
  IN  [toPos EXCEPT !.quantity      = q,
                    !.cost_basis    = cb,
                    !.avg_cost      = IF q[1] > 0 THEN RDiv(cb, q) ELSE Zero,
                    !.cost_currency = TxCurrency(tx)]

\* TO side: receiving an asset
ReplayToSide(ps, tx, fxRateUSDTHB) ==
  IF ~ToSideActive(tx) THEN ps
  ELSE
    LET txFxRate == TxFxRate(tx, fxRateUSDTHB)
        ps1      == getPos(ps, tx.to_ticker, tx.to_asset_type, TxCurrency(tx))
        k        == KeyIdx(ps1, ToUpperCase(tx.to_ticker))
        toPos    == ps1[k]
    IN  IF isCashAsset(tx.to_ticker)
        THEN [ps1 EXCEPT ![k] = CashReceived(toPos, tx, txFxRate)]
        ELSE IF toPos.quantity[1] < 0
        THEN [ps1 EXCEPT ![k] = ShortCover(toPos, tx)]
        ELSE [ps1 EXCEPT ![k] = LongBuy(toPos, tx)]

\* variant: a fee paid in cash is booked as a realized loss
CashSpentBookingFee(fromPos, tx, txFxRate) ==
  LET totalDeducted == RAdd(tx.from_amount, FeesOnSide(tx, tx.from_ticker))
      face          == cashFaceValueUSD(tx.from_ticker, txFxRate)
      q             == RSub(fromPos.quantity, totalDeducted)
  IN  [fromPos EXCEPT !.quantity      = q,
                      !.avg_cost      = face,
                      !.cost_basis    = RMul(RAbs(q), face),
                      !.cost_currency = "USD",
                      !.realized_pnl  = RSub(fromPos.realized_pnl,
                                             FeesOnSide(tx, tx.from_ticker))]

\* cash spent: deduct face value amount
CashSpent(fromPos, tx, txFxRate) ==
  LET totalDeducted == RAdd(tx.from_amount, FeesOnSide(tx, tx.from_ticker))
      face          == cashFaceValueUSD(tx.from_ticker, txFxRate)
      q             == RSub(fromPos.quantity, totalDeducted)
  IN  [fromPos EXCEPT !.quantity      = q,
                      !.avg_cost      = face,
                      !.cost_basis    = RMul(RAbs(q), face),
                      !.cost_currency = "USD"]

\* a sell that re-derives avg_cost from what is left, 0 when nothing is left
LongSellRederivingAvg(fromPos, tx) ==
  LET totalUnitsSold == RAdd(tx.from_amount, FeesOnSide(tx, tx.from_ticker))
      avgCostPerUnit == RDiv(fromPos.cost_basis, RMax(fromPos.quantity, DUST))
      costOfSold     == RMul(totalUnitsSold, avgCostPerUnit)
      q              == RSub(fromPos.quantity, totalUnitsSold)
      dust           == RLt(q, DUST)
  IN  [fromPos EXCEPT !.realized_pnl =
                         RAdd(fromPos.realized_pnl,
                              RSub(NumOrZero(tx.to_amount), costOfSold)),
                      !.cost_basis   = IF dust THEN Zero
                                       ELSE RSub(fromPos.cost_basis, costOfSold),
                      !.quantity     = IF dust THEN Zero ELSE q,
                      !.avg_cost     = IF dust THEN Zero ELSE avgCostPerUnit]

\* variant: only a remainder of dust size is zeroed, so that an oversold
\* long turns into a short
LongSellAcrossZero(fromPos, tx) ==
  LET unitsSold      == tx.from_amount
      totalUnitsSold == RAdd(unitsSold, FeesOnSide(tx, tx.from_ticker))
      safeQty        == RMax(fromPos.quantity, DUST)
      avgCostPerUnit == RDiv(fromPos.cost_basis, safeQty)
      proceeds       == NumOrZero(tx.to_amount)
      costOfSold     == RMul(totalUnitsSold, avgCostPerUnit)
      cb             == RSub(fromPos.cost_basis, costOfSold)
      q              == RSub(fromPos.quantity, totalUnitsSold)
      dust           == RLt(RAbs(q), DUST)
  IN  [fromPos EXCEPT !.realized_pnl =
                         RAdd(fromPos.realized_pnl, RSub(proceeds, costOfSold)),
                      !.cost_basis   = IF dust THEN Zero ELSE cb,
                      !.quantity     = IF dust THEN Zero ELSE q]

\* LONG SELL: reduce quantity, realize P&L, reduce cost proportionally
LongSell(fromPos, tx) ==
  LET unitsSold      == tx.from_amount
      totalUnitsSold == RAdd(unitsSold, FeesOnSide(tx, tx.from_ticker))
      safeQty        == RMax(fromPos.quantity, DUST)
      avgCostPerUnit == RDiv(fromPos.cost_basis, safeQty)
      proceeds       == NumOrZero(tx.to_amount)
      costOfSold     == RMul(totalUnitsSold, avgCostPerUnit)
      cb             == RSub(fromPos.cost_basis, costOfSold)
      q              == RSub(fromPos.quantity, totalUnitsSold)
      dust           == RLt(q, DUST)
  IN  [fromPos EXCEPT !.realized_pnl =
                         RAdd(fromPos.realized_pnl, RSub(proceeds, costOfSold)),
                      !.cost_basis   = IF dust THEN Zero ELSE cb,
                      !.quantity     = IF dust THEN Zero ELSE q]

\* variant: the short is carried at the price of its latest lot
ShortEntryAtLastPrice(fromPos, tx) ==
  LET unitsShorted  == tx.from_amount
      proceeds      == NumOrZero(tx.to_amount)
      pricePerUnit  == IF unitsShorted[1] > 0
                       THEN RDiv(proceeds, unitsShorted) ELSE Zero
      newShortQty   == RAdd(RAbs(fromPos.quantity), unitsShorted)
  IN  [fromPos EXCEPT !.quantity   = RSub(fromPos.quantity, unitsShorted),
                      !.cost_basis = RMul(newShortQty, pricePerUnit),
                      !.avg_cost   = pricePerUnit]

\* SHORT ENTRY: opening or adding to a short position
ShortEntry(fromPos, tx) ==
  LET unitsShorted  == tx.from_amount
      proceeds      == NumOrZero(tx.to_amount)
      pricePerUnit  == IF unitsShorted[1] > 0
                       THEN RDiv(proceeds, unitsShorted) ELSE Zero
      prevShortQty  == RAbs(fromPos.quantity)
      prevShortCost == fromPos.cost_basis
      newShortQty   == RAdd(prevShortQty, unitsShorted)
      cb            == RAdd(prevShortCost, RMul(unitsShorted, pricePerUnit))
  IN  [fromPos EXCEPT !.quantity   = RSub(fromPos.quantity, unitsShorted),
                      !.cost_basis = cb,
                      !.avg_cost   = IF newShortQty[1] > 0
                                     THEN RDiv(cb, newShortQty)
                                     ELSE pricePerUnit]

\* FROM side: giving up an asset
ReplayFromSide(ps, tx, fxRateUSDTHB) ==
  IF ~FromSideActive(tx) THEN ps
  ELSE
    LET txFxRate == TxFxRate(tx, fxRateUSDTHB)
        ps1      == getPos(ps, tx.from_ticker, tx.from_asset_type, TxCurrency(tx))
        k        == KeyIdx(ps1, ToUpperCase(tx.from_ticker))
        fromPos  == ps1[k]
    IN  IF isCashAsset(tx.from_ticker)
        THEN [ps1 EXCEPT ![k] = CashSpent(fromPos, tx, txFxRate)]
        ELSE IF fromPos.quantity[1] > 0
        THEN [ps1 EXCEPT ![k] = LongSell(fromPos, tx)]
        ELSE [ps1 EXCEPT ![k] = ShortEntry(fromPos, tx)]

(***************************************************************************)
(* STEP 3: clean up dust and guard against bad states                      *)
(***************************************************************************)
\* variant: avg_cost is re-derived even when nothing is held
CleanupPositionDividingAlways(pos) ==
  LET p1 == IF RLt(RAbs(pos.quantity), DUST)
            THEN [pos EXCEPT !.quantity = Zero, !.cost_basis = Zero]
            ELSE pos
      p2 == IF p1.quantity[1] >= 0 /\ p1.cost_basis[1] < 0
            THEN [p1 EXCEPT !.cost_basis = Zero, !.avg_cost = Zero]
            ELSE p1
  IN  IF p2.cost_basis[1] >= 0
      THEN [p2 EXCEPT !.avg_cost = RDiv(p2.cost_basis, RAbs(p2.quantity))]
      ELSE p2

\* a cleanup without the dust rule
CleanupPositionKeepingDust(pos) ==
  LET p2 == IF pos.quantity[1] >= 0 /\ pos.cost_basis[1] < 0
            THEN [pos EXCEPT !.cost_basis = Zero, !.avg_cost = Zero]
            ELSE pos
  IN  IF p2.quantity # Zero /\ p2.cost_basis[1] >= 0
      THEN [p2 EXCEPT !.avg_cost = RDiv(p2.cost_basis, RAbs(p2.quantity))]
      ELSE p2

CleanupPosition(pos) ==
  LET p1 == IF RLt(RAbs(pos.quantity), DUST)
            THEN [pos EXCEPT !.quantity = Zero, !.cost_basis = Zero]
            ELSE pos
      p2 == IF p1.quantity[1] >= 0 /\ p1.cost_basis[1] < 0
            THEN [p1 EXCEPT !.cost_basis = Zero, !.avg_cost = Zero]
            ELSE p1
  IN  IF p2.quantity # Zero /\ p2.cost_basis[1] >= 0
      THEN [p2 EXCEPT !.avg_cost = RDiv(p2.cost_basis, RAbs(p2.quantity))]
      ELSE p2

CleanupPass(ps) == [k \in 1..Len(ps) |-> CleanupPosition(ps[k])]

(***************************************************************************)
(* calculatePositions as a function of its arguments                       *)
(***************************************************************************)
RECURSIVE SeedAll(_, _, _)
SeedAll(inits, n, fx) ==
  IF n = 0 THEN <<>> ELSE SeedRow(SeedAll(inits, n - 1, fx), inits[n], fx)

RECURSIVE ReplayAll(_, _, _, _)
ReplayAll(ps, txs, n, fx) ==
  IF n = 0 THEN ps
  ELSE ReplayFromSide(ReplayToSide(ReplayAll(ps, txs, n - 1, fx), txs[n], fx),
                      txs[n], fx)

calculatePositions(inits, txs, fx) ==
  CleanupPass(ReplayAll(SeedAll(inits, Len(inits), fx),
                        SortedCopy(txs), Len(txs), fx))

(***************************************************************************)
(* Inputs of the model                                                     *)
(***************************************************************************)
InitRow(ticker, assetType, quantity, avgCost, costCurrency) ==
  [ ticker |-> ticker, asset_type |-> assetType, quantity |-> quantity,
    avg_cost |-> avgCost, cost_currency |-> costCurrency ]

InitRows ==
  << InitRow("AAPL", "stock",  <<10, 1>>,          <<100, 1>>, "USD"),
     InitRow("USD",  "cash",   <<-10, 1>>,         <<5, 1>>,   "USD"),
     InitRow("THB",  "",       <<350, 1>>,         Undefined,  "THB"),
     InitRow("TSLA", "stock",  <<-10, 1>>,         <<200, 1>>, "THB"),
     InitRow("btc",  "crypto", <<3, 1000000000>>,  <<100, 1>>, ""),
     InitRow("AAPL", "",       <<10, 1>>,          <<-5, 1>>,  "USD"),
     InitRow("BTC",  "other",  <<1, 2000000000>>,  <<100, 1>>, "USD") >>

LedgerEntry(fromTicker, fromAmount, toTicker, toAmount, fee, feeCur, txCur, fxAtTime, date) ==
  [ from_ticker |-> fromTicker, from_amount |-> fromAmount,
    from_asset_type |-> IF fromTicker = "" THEN "" ELSE "other",
    to_ticker |-> toTicker, to_amount |-> toAmount,
    to_asset_type |-> IF toTicker \in {"AAPL", "TSLA"} THEN "stock" ELSE "",
    fees |-> fee, fee_currency |-> feeCur,
    transaction_currency |-> txCur,
    fx_rate_at_time |-> fxAtTime, transaction_date |-> date ]

LedgerEntries ==
  << \* buy 5 AAPL for 500 USD
     LedgerEntry("USD", <<500, 1>>, "AAPL", <<5, 1>>, Undefined, "", "USD",
                 Undefined, "2024-01-05"),
     \* sell 5 AAPL for 600 USD
     LedgerEntry("AAPL", <<5, 1>>, "USD", <<600, 1>>, Undefined, "", "USD",
                 Undefined, "2024-01-06"),
     \* short 10 TSLA for 2000 USD
     LedgerEntry("TSLA", <<10, 1>>, "USD", <<2000, 1>>, Undefined, "", "",
                 Undefined, "2024-01-05T00:00:00.000Z"),
     \* cover 10 TSLA for 1500 USD
     LedgerEntry("USD", <<1500, 1>>, "TSLA", <<10, 1>>, Undefined, "", "USD",
                 Undefined, "2024-01-06"),
     \* deposit 700 THB at a transaction-time rate of 30
     LedgerEntry("", Undefined, "thb", <<700, 1>>, Undefined, "", "THB",
                 <<30, 1>>, "2024-01-07"),
     \* withdraw 20 USD with a fee of 1 USD; the TO side names AAPL with amount 0
     LedgerEntry("USD", <<20, 1>>, "AAPL", Zero, <<1, 1>>, "USD", "USD",
                 Undefined, "2024-01-07"),
     \* buy 5 AAPL for 500 with an in-kind fee of 2, denominated in THB
     LedgerEntry("THB", <<500, 1>>, "AAPL", <<5, 1>>, <<2, 1>>, "AAPL", "THB",
                 <<30, 1>>, "2024-01-05"),
     \* swap 2 AAPL (and an in-kind fee of 0.5 AAPL) for 4 TSLA
     LedgerEntry("AAPL", <<2, 1>>, "TSLA", <<4, 1>>, <<1, 2>>, "AAPL", "USD",
                 Undefined, "2024-01-06"),
     \* give up 2.5e-9 BTC for 0.001 USD
     LedgerEntry("btc", <<5, 2000000000>>, "USD", <<1, 1000>>, Undefined, "",
                 "USD", Undefined, "2024-01-06"),
     \* transfer out 5e-10 BTC
     LedgerEntry("BTC", <<1, 2000000000>>, "", Undefined, Undefined, "", "USD",
                 Undefined, "2024-01-07"),
     \* give up 20 AAPL (and an in-kind fee of 1, recorded as -1) for 100 USD
     LedgerEntry("AAPL", <<20, 1>>, "USD", <<100, 1>>, <<-1, 1>>, "AAPL", "USD",
                 Undefined, "2024-01-07") >>

FxRates == { <<32, 1>> }

\* initial-balance snapshots: at most MaxInit rows, one opening lot per ticker
RECURSIVE Portfolios(_)
Portfolios(n) ==
  IF n = 0 THEN { <<>> }
  ELSE LET prev == Portfolios(n - 1)
       IN  prev \cup
           { Append(p, r) : <<p, r>> \in
               { pr \in prev \X (1..Len(InitRows)) :
                   /\ Len(pr[1]) = n - 1
                   /\ \A k \in 1..Len(pr[1]) :
                        /\ pr[1][k] < pr[2]
                        /\ ToUpperCase(InitRows[pr[1][k]].ticker)
                             # ToUpperCase(InitRows[pr[2]].ticker) } }

RECURSIVE Ledgers(_)
Ledgers(n) ==
  IF n = 0 THEN { <<>> }
  ELSE LET prev == Ledgers(n - 1)
       IN  prev \cup
           { Append(l, e) : <<l, e>> \in
               { le \in prev \X (1..Len(LedgerEntries)) : Len(le[1]) = n - 1 } }

(***************************************************************************)
(* The cash classifiers of services/positionCalculator.js, the variant the *)
(* portfolio route imports                                                 *)
(***************************************************************************)
EndsWith(s, p) == Len(s) >= Len(p) /\ SubSeq(s, Len(s) - Len(p) + 1, Len(s)) = p

CASH_TICKERS == {"USD", "THB", "USDT", "USDC", "USDC.E", "BUSD", "DAI", "TUSD", "FRAX"}

isCashAsset_services(ticker) ==
  IF ticker = "" THEN FALSE
  ELSE LET upper == ToUpperCase(ticker)
       IN  \/ upper \in CASH_TICKERS
           \/ StartsWith(upper, "CASH-") \/ EndsWith(upper, "-CASH")
           \/ StartsWith(upper, "USDT") \/ StartsWith(upper, "USDC")
           \/ StartsWith(upper, "BUSD")

isTHBCash_services(ticker) ==
  IF ticker = "" THEN FALSE
  ELSE LET upper == ToUpperCase(ticker)
       IN  upper = "THB" \/ upper = "CASH-THB" \/ EndsWith(upper, "-THB")

\* tickers handed to the classifiers: the allow-list, the naming
\* conventions in both cases, near misses and plain instruments
Tickers ==
  { "", "USD", "usd", "THB", "thb", "USDT", "USDC", "BUSD", "DAI", "TUSD",
    "FRAX", "frax", "CASH-USD", "CASH-THB", "cash-thb", "CASH-EUR", "CASH",
    "USD-CASH", "usd-cash", "EUR-THB", "eur-thb", "USDT-ARB", "USDC.E",
    "BUSDX", "DAIX", "THBX", "AAPL", "aapl", "BTC", "TSLA" }

\* rates handed to the face value: usual, zero, negative, absent
CashFxRates == { <<35, 1>>, <<32, 1>>, Zero, <<-35, 1>>, Undefined }

(***************************************************************************)
(* calculatePositions of services/positionCalculator.js                    *)
(***************************************************************************)
\* 1 / fxRateUSDTHB for THB cash, 1.0 otherwise; the default 35.0 replaces
\* only an absent argument
cashAvgCost(ticker, fxRateUSDTHB) ==
  IF isTHBCash_services(ticker)
  THEN RDiv(One, IF fxRateUSDTHB = Undefined THEN DefaultFxRate ELSE fxRateUSDTHB)
  ELSE One

\* getPos: the map is keyed by the ticker as written
getPos_services(ps, ticker, assetType, costCurrency) ==
  LET ps1 == IF HasKey(ps, ticker) THEN ps
             ELSE Append(ps, createPosition(ticker, assetType,
                                 IF costCurrency = "" THEN "USD" ELSE costCurrency))
      k   == KeyIdx(ps1, ticker)
  IN  IF assetType # "" /\ ps1[k].asset_type = "other"
      THEN [ps1 EXCEPT ![k].asset_type = assetType]
      ELSE ps1

\* STEP 1 of the services variant
SeedRow_services(ps, init, fxRateUSDTHB) ==
  LET cur       == IF init.cost_currency = "" THEN "USD" ELSE init.cost_currency
      ps1       == getPos_services(ps, init.ticker, init.asset_type, cur)
      k         == KeyIdx(ps1, init.ticker)
      faceValue == cashAvgCost(init.ticker, fxRateUSDTHB)
      avgCost   == NumOrZero(init.avg_cost)
  IN  IF isCashAsset_services(init.ticker)
      THEN [ps1 EXCEPT ![k].quantity      = init.quantity,
                       ![k].avg_cost      = faceValue,
                       ![k].cost_basis    = RMul(init.quantity, faceValue),
                       ![k].cost_currency = "USD"]
      ELSE [ps1 EXCEPT ![k].quantity      = init.quantity,
                       ![k].avg_cost      = avgCost,
                       ![k].cost_basis    = RMul(init.quantity, avgCost),
                       ![k].cost_currency = cur]

\* Number(fx_rate_at_time) || fxRateUSDTHB
TxFxRate_services(tx, fxRateUSDTHB) ==
  IF tx.fx_rate_at_time \in {Undefined, Zero} THEN fxRateUSDTHB
  ELSE tx.fx_rate_at_time

\* (fee_currency === ticker) ? Number(fees) : 0
FeesOnSide_services(tx, ticker) ==
  IF tx.fee_currency = ticker THEN tx.fees ELSE Zero

applyReceive(pos, ticker, unitsReceived, totalPaid, fees, txFxRate) ==
  IF isCashAsset_services(ticker)
  THEN LET faceValue == cashAvgCost(ticker, txFxRate)
           q         == RAdd(pos.quantity, unitsReceived)
       IN  [pos EXCEPT !.quantity   = q,
                       !.avg_cost   = faceValue,
                       !.cost_basis = RMul(q, faceValue)]
  ELSE LET amountPaid   == RAdd(totalPaid, fees)
           newCostBasis == RAdd(pos.cost_basis, amountPaid)
           newQty       == RAdd(pos.quantity, unitsReceived)
       IN  [pos EXCEPT !.quantity   = newQty,
                       !.cost_basis = newCostBasis,
                       !.avg_cost   = IF newQty[1] > 0
                                      THEN RDiv(newCostBasis, newQty) ELSE Zero]

ReplayToSide_services(ps, tx, fxRateUSDTHB) ==
  IF ~ToSideActive(tx) THEN ps
  ELSE
    LET ps1 == getPos_services(ps, tx.to_ticker, tx.to_asset_type, TxCurrency(tx))
        k   == KeyIdx(ps1, tx.to_ticker)
    IN  [ps1 EXCEPT ![k] = applyReceive(ps1[k], tx.to_ticker, tx.to_amount,
                                        NumOrZero(tx.from_amount),
                                        FeesOnSide_services(tx, tx.to_ticker),
                                        TxFxRate_services(tx, fxRateUSDTHB))]

\* cash spent: the cost basis keeps the sign of the balance
CashSpent_services(fromPos, tx, txFxRate) ==
  LET cashFace      == cashAvgCost(tx.from_ticker, txFxRate)
      totalDeducted == RAdd(tx.from_amount, FeesOnSide_services(tx, tx.from_ticker))
      q             == RSub(fromPos.quantity, totalDeducted)
  IN  [fromPos EXCEPT !.quantity   = q,
                      !.avg_cost   = cashFace,
                      !.cost_basis = RMul(q, cashFace)]

\* sell of a long: the units leave at the carried avg_cost
LongSell_services(fromPos, tx) ==
  LET totalUnitsSold  == RAdd(tx.from_amount, FeesOnSide_services(tx, tx.from_ticker))
      costOfUnitsSold == RMul(totalUnitsSold, fromPos.avg_cost)
      saleProceeds    == NumOrZero(tx.to_amount)
      cb              == RSub(fromPos.cost_basis, costOfUnitsSold)
      q               == RSub(fromPos.quantity, totalUnitsSold)
      dust            == RLe(q, DUST)
  IN  [fromPos EXCEPT !.realized_pnl =
                         RAdd(fromPos.realized_pnl, RSub(saleProceeds, costOfUnitsSold)),
                      !.cost_basis   = IF dust THEN Zero ELSE cb,
                      !.quantity     = IF dust THEN Zero ELSE q]

\* units given up while nothing is held: a negative quantity at the old
\* avg_cost
ShortEntry_services(fromPos, tx) ==
  LET q == RSub(fromPos.quantity, tx.from_amount)
  IN  [fromPos EXCEPT !.quantity   = q,
                      !.cost_basis = RMul(q, fromPos.avg_cost)]

ReplayFromSide_services(ps, tx, fxRateUSDTHB) ==
  IF ~FromSideActive(tx) THEN ps
  ELSE
    LET ps1     == getPos_services(ps, tx.from_ticker, tx.from_asset_type, TxCurrency(tx))
        k       == KeyIdx(ps1, tx.from_ticker)
        fromPos == ps1[k]
    IN  IF isCashAsset_services(tx.from_ticker)
        THEN [ps1 EXCEPT ![k] = CashSpent_services(fromPos, tx,
                                    TxFxRate_services(tx, fxRateUSDTHB))]
        ELSE IF fromPos.quantity[1] > 0
        THEN [ps1 EXCEPT ![k] = LongSell_services(fromPos, tx)]
        ELSE [ps1 EXCEPT ![k] = ShortEntry_services(fromPos, tx)]

\* STEP 3 of the services variant: avg_cost is not re-derived
CleanupPosition_services(pos) ==
  LET p1 == IF RLt(RAbs(pos.quantity), DUST)
            THEN [pos EXCEPT !.quantity = Zero, !.cost_basis = Zero]
            ELSE pos
  IN  IF p1.quantity[1] >= 0 /\ p1.cost_basis[1] < 0
      THEN [p1 EXCEPT !.cost_basis = Zero, !.avg_cost = Zero]
      ELSE p1

RECURSIVE SeedAll_services(_, _, _)
SeedAll_services(inits, n, fx) ==
  IF n = 0 THEN <<>>
  ELSE SeedRow_services(SeedAll_services(inits, n - 1, fx), inits[n], fx)

RECURSIVE ReplayAll_services(_, _, _, _)
ReplayAll_services(ps, txs, n, fx) ==
  IF n = 0 THEN ps
  ELSE ReplayFromSide_services(
         ReplayToSide_services(ReplayAll_services(ps, txs, n - 1, fx), txs[n], fx),
         txs[n], fx)

calculatePositions_services(inits, txs, fx) ==
  LET ps == ReplayAll_services(SeedAll_services(inits, Len(inits), fx),
                               SortedCopy(txs), Len(txs), fx)
  IN  [k \in 1..Len(ps) |-> CleanupPosition_services(ps[k])]

(***************************************************************************)
(* enrichPositions, computePortfolioSummary, validatePositions             *)
(***************************************************************************)
RECURSIVE FixDigits(_, _, _, _)
\* the first k decimal digits of r / den (0 <= r < den) as an integer, the
\* last one rounded up when the remainder is at least one half
FixDigits(r, den, k, acc) ==
  IF k = 0 THEN acc + (IF 2 * r >= den THEN 1 ELSE 0)
  ELSE FixDigits((r * 10) % den, den, k - 1, acc * 10 + ((r * 10) \div den))

\* Number(x.toFixed(digits)): the nearest multiple of 10^-digits, a tie
\* going away from zero
ToFixed(x, digits) ==
  LET a == AbsInt(x[1])
      q == a \div x[2]
      f == Norm(FixDigits(a % x[2], x[2], digits, 0), 10 ^ digits)
  IN  Norm((IF x[1] < 0 THEN -1 ELSE 1) * (q * f[2] + f[1]), f[2])

\* priceMap[ticker] || {}
PriceData(priceMap, ticker) ==
  IF \E k \in 1..Len(priceMap) : priceMap[k].ticker = ticker
  THEN priceMap[CHOOSE k \in 1..Len(priceMap) : priceMap[k].ticker = ticker]
  ELSE [ ticker |-> ticker, price |-> Undefined, currency |-> "", updatedAt |-> "" ]

\* variant: only the USD -> THB statement is there
ToDisplayOneWay(amount, currency, displayCurrency, fxRateUSDTHB) ==
  IF currency = "USD" /\ displayCurrency = "THB" THEN RMul(amount, fxRateUSDTHB)
  ELSE amount

\* the two conversion statements: USD -> THB multiplies, THB -> USD divides
ToDisplay(amount, currency, displayCurrency, fxRateUSDTHB) ==
  IF currency = "USD" /\ displayCurrency = "THB" THEN RMul(amount, fxRateUSDTHB)
  ELSE IF currency = "THB" /\ displayCurrency = "USD" THEN RDiv(amount, fxRateUSDTHB)
  ELSE amount

\* variant: a short is valued like a long
EnrichRowLikeLong(pos, priceMap, fxRateUSDTHB, displayCurrency) ==
  LET priceData      == PriceData(priceMap, pos.ticker)
      rawPrice       == NumOrZero(priceData.price)
      priceCur       == IF priceData.currency = "" THEN "USD" ELSE priceData.currency
      displayPrice   == ToDisplay(rawPrice, priceCur, displayCurrency, fxRateUSDTHB)
      displayAvgCost == ToDisplay(pos.avg_cost, pos.cost_currency, displayCurrency, fxRateUSDTHB)
      absQty         == RAbs(pos.quantity)
      currentValue   == RMul(displayPrice, absQty)
      costDisplay    == RMul(displayAvgCost, absQty)
      unrealizedPnL  == RSub(currentValue, costDisplay)
      unrealizedPct  == IF costDisplay[1] > 0
                        THEN RMul(RDiv(unrealizedPnL, costDisplay), <<100, 1>>)
                        ELSE Zero
  IN  [ ticker             |-> pos.ticker,
        asset_type         |-> pos.asset_type,
        quantity           |-> pos.quantity,
        is_short           |-> pos.quantity[1] < 0,
        avg_cost           |-> displayAvgCost,
        cost_basis         |-> costDisplay,
        current_price      |-> displayPrice,
        current_value      |-> currentValue,
        unrealized_pnl     |-> unrealizedPnL,
        unrealized_pnl_pct |-> ToFixed(unrealizedPct, 4),
        realized_pnl       |-> ToDisplay(pos.realized_pnl, pos.cost_currency, displayCurrency, fxRateUSDTHB),
        display_currency   |-> displayCurrency,
        price_updated_at   |-> priceData.updatedAt ]

\* the body of the loop for one position with quantity # 0
EnrichRow(pos, priceMap, fxRateUSDTHB, displayCurrency) ==
  LET priceData      == PriceData(priceMap, pos.ticker)
      rawPrice       == NumOrZero(priceData.price)
      priceCur       == IF priceData.currency = "" THEN "USD" ELSE priceData.currency
      displayPrice   == ToDisplay(rawPrice, priceCur, displayCurrency, fxRateUSDTHB)
      displayAvgCost == ToDisplay(pos.avg_cost, pos.cost_currency, displayCurrency, fxRateUSDTHB)
      absQty         == RAbs(pos.quantity)
      isShort        == pos.quantity[1] < 0
      currentValue   == RMul(displayPrice, absQty)
      costDisplay    == RMul(displayAvgCost, absQty)
      unrealizedPnL  == IF isShort THEN RSub(costDisplay, currentValue)
                        ELSE RSub(currentValue, costDisplay)
      unrealizedPct  == IF costDisplay[1] > 0
                        THEN RMul(RDiv(unrealizedPnL, costDisplay), <<100, 1>>)
                        ELSE Zero
  IN  [ ticker             |-> pos.ticker,
        asset_type         |-> pos.asset_type,
        quantity           |-> pos.quantity,
        is_short           |-> isShort,
        avg_cost           |-> displayAvgCost,
        cost_basis         |-> costDisplay,
        current_price      |-> displayPrice,
        current_value      |-> IF isShort THEN RSub(costDisplay, unrealizedPnL)
                               ELSE currentValue,
        unrealized_pnl     |-> unrealizedPnL,
        unrealized_pnl_pct |-> ToFixed(unrealizedPct, 4),
        realized_pnl       |-> ToDisplay(pos.realized_pnl, pos.cost_currency, displayCurrency, fxRateUSDTHB),
        display_currency   |-> displayCurrency,
        price_updated_at   |-> priceData.updatedAt ]

\* the loop: one pushed row per position whose quantity is not 0
RECURSIVE EnrichLoop(_, _, _, _, _)
EnrichLoop(positions, n, priceMap, fxRateUSDTHB, displayCurrency) ==
  IF n = 0 THEN <<>>
  ELSE LET before == EnrichLoop(positions, n - 1, priceMap, fxRateUSDTHB, displayCurrency)
       IN  IF positions[n].quantity = Zero THEN before
           ELSE Append(before, EnrichRow(positions[n], priceMap, fxRateUSDTHB, displayCurrency))

\* the comparator of result.sort: its sign
CompareRows(a, b) ==
  LET aC == isCashAsset(a.ticker)
      bC == isCashAsset(b.ticker)
      d  == RSub(RAbs(b.current_value), RAbs(a.current_value))
  IN  IF aC /\ ~bC THEN 1
      ELSE IF ~aC /\ bC THEN -1
      ELSE IF d[1] > 0 THEN 1 ELSE IF d[1] < 0 THEN -1 ELSE 0

\* variant: a row is placed before the rows it ties with
RECURSIVE InsertRowBeforeTies(_, _)
InsertRowBeforeTies(rows, x) ==
  IF rows = <<>> THEN <<x>>
  ELSE IF CompareRows(rows[Len(rows)], x) >= 0
       THEN Append(InsertRowBeforeTies(SubSeq(rows, 1, Len(rows) - 1), x), rows[Len(rows)])
       ELSE Append(rows, x)

\* Array.prototype.sort is stable: a row goes after the rows it ties with
RECURSIVE InsertRow(_, _)
InsertRow(rows, x) ==
  IF rows = <<>> THEN <<x>>
  ELSE IF CompareRows(rows[Len(rows)], x) > 0
       THEN Append(InsertRow(SubSeq(rows, 1, Len(rows) - 1), x), rows[Len(rows)])
       ELSE Append(rows, x)

RECURSIVE SortRows(_, _)
SortRows(rows, n) ==
  IF n = 0 THEN <<>> ELSE InsertRow(SortRows(rows, n - 1), rows[n])

enrichPositions(positions, priceMap, fxRateUSDTHB, displayCurrency) ==
  LET pushed == EnrichLoop(positions, Len(positions), priceMap, fxRateUSDTHB, displayCurrency)
  IN  SortRows(pushed, Len(pushed))

\* the three running totals of the summary loop
RECURSIVE TotalValue(_, _)
TotalValue(rows, n) ==
  IF n = 0 THEN Zero ELSE RAdd(TotalValue(rows, n - 1), rows[n].current_value)

\* variant: cash rows add their cost to the total cost
RECURSIVE TotalCostWithCash(_, _)
TotalCostWithCash(rows, n) ==
  IF n = 0 THEN Zero ELSE RAdd(TotalCostWithCash(rows, n - 1), rows[n].cost_basis)

RECURSIVE TotalCost(_, _)
TotalCost(rows, n) ==
  IF n = 0 THEN Zero
  ELSE IF isCashAsset(rows[n].ticker) THEN TotalCost(rows, n - 1)
  ELSE RAdd(TotalCost(rows, n - 1), rows[n].cost_basis)

RECURSIVE TotalRealized(_, _)
TotalRealized(rows, n) ==
  IF n = 0 THEN Zero
  ELSE IF isCashAsset(rows[n].ticker) THEN TotalRealized(rows, n - 1)
  ELSE RAdd(TotalRealized(rows, n - 1), rows[n].realized_pnl)

computePortfolioSummary(enrichedPositions, displayCurrency) ==
  LET totalValue    == TotalValue(enrichedPositions, Len(enrichedPositions))
      totalCost     == TotalCost(enrichedPositions, Len(enrichedPositions))
      totalRealized == TotalRealized(enrichedPositions, Len(enrichedPositions))
      unrealizedPnL == RSub(totalValue, totalCost)
      unrealizedPct == IF totalCost[1] > 0
                       THEN RMul(RDiv(unrealizedPnL, totalCost), <<100, 1>>)
                       ELSE Zero
  IN  [ total_value        |-> ToFixed(totalValue, 2),
        total_cost         |-> ToFixed(totalCost, 2),
        unrealized_pnl     |-> ToFixed(unrealizedPnL, 2),
        unrealized_pnl_pct |-> ToFixed(unrealizedPct, 4),
        realized_pnl       |-> ToFixed(totalRealized, 2),
        total_pnl          |-> ToFixed(RAdd(unrealizedPnL, totalRealized), 2),
        display_currency   |-> displayCurrency ]

\* the warnings pushed for one entry; a warning is the ticker and the check
\* that produced it (the message text adds the offending number)
WarningsFor(pos) ==
  (IF pos.quantity[1] > 0 /\ pos.cost_basis[1] < 0
   THEN << [ ticker |-> pos.ticker, check |-> "negative cost_basis" ] >> ELSE <<>>)
  \o (IF pos.avg_cost[1] < 0
      THEN << [ ticker |-> pos.ticker, check |-> "negative avg_cost" ] >> ELSE <<>>)
  \o (IF /\ isCashAsset(pos.ticker)
         /\ pos.quantity # Zero
         /\ RLt(<<1, 100>>, RAbs(RSub(pos.avg_cost, One)))
         /\ ~isTHBCash(pos.ticker)
      THEN << [ ticker |-> pos.ticker, check |-> "USD cash avg_cost" ] >> ELSE <<>>)

RECURSIVE ValidateLoop(_, _)
ValidateLoop(positions, n) ==
  IF n = 0 THEN <<>>
  ELSE ValidateLoop(positions, n - 1) \o WarningsFor(positions[n])

validatePositions(positions) == ValidateLoop(positions, Len(positions))

(***************************************************************************)
(* Inputs of the request tail                                              *)
(***************************************************************************)
Held(ticker, assetType, quantity, avgCost, costBasis, costCurrency, realizedPnl) ==
  [ ticker |-> ticker, asset_type |-> assetType, quantity |-> quantity,
    avg_cost |-> avgCost, cost_basis |-> costBasis,
    cost_currency |-> costCurrency, realized_pnl |-> realizedPnl ]

\* positions as calculatePositions returns them (a long, a short carried
\* in THB, cash at face value, a closed position, a short with a negative
\* stated cost, an overdraft) and the anomalies validatePositions looks for
HeldRows ==
  << Held("USD",  "cash",   <<5000, 1>>, One,          <<5000, 1>>,  "USD", Zero),
     Held("AAPL", "stock",  <<10, 1>>,   <<100, 1>>,   <<1000, 1>>,  "USD", <<100, 1>>),
     Held("TSLA", "stock",  <<-10, 1>>,  <<200, 1>>,   <<2000, 1>>,  "THB", <<64, 1>>),
     Held("THB",  "cash",   <<350, 1>>,  <<1, 32>>,    <<175, 16>>,  "USD", Zero),
     Held("BTC",  "crypto", <<7, 1>>,    <<3, 1>>,     <<21, 1>>,    "USD", Zero),
     Held("BTC",  "crypto", Zero,        <<100, 1>>,   Zero,         "USD", <<500, 1>>),
     Held("TSLA", "stock",  <<-10, 1>>,  <<-200, 1>>,  <<-2000, 1>>, "USD", Zero),
     Held("AAPL", "stock",  <<10, 1>>,   <<100, 1>>,   <<-50, 1>>,   "USD", Zero),
     Held("USD",  "cash",   <<100, 1>>,  <<5, 1>>,     <<500, 1>>,   "USD", Zero),
     Held("THB",  "cash",   <<350, 1>>,  One,          <<350, 1>>,   "USD", Zero),
     Held("USD",  "cash",   <<-10, 1>>,  One,          <<-10, 1>>,   "USD", Zero) >>

\* position maps of up to n entries, in any insertion order, one per ticker
RECURSIVE Holdings(_)
Holdings(n) ==
  IF n = 0 THEN { <<>> }
  ELSE LET prev == Holdings(n - 1)
       IN  prev \cup
           { Append(h, r) : <<h, r>> \in
               { hr \in prev \X (1..Len(HeldRows)) :
                   /\ Len(hr[1]) = n - 1
                   /\ \A k \in 1..Len(hr[1]) :
                        HeldRows[hr[1][k]].ticker # HeldRows[hr[2]].ticker } }

Quote(ticker, price, currency, updatedAt) ==
  [ ticker |-> ticker, price |-> price, currency |-> currency, updatedAt |-> updatedAt ]

\* price snapshots: complete; partial, with AAPL and TSLA worth the same;
\* empty
PriceMaps ==
  { << Quote("USD", One, "USD", "t1"), Quote("AAPL", <<150, 1>>, "USD", "t1"),
       Quote("TSLA", <<3200, 1>>, "THB", "t1"), Quote("THB", One, "THB", "t1"),
       Quote("BTC", <<4, 1>>, "USD", "t1") >>,
    << Quote("USD", One, "USD", "t2"), Quote("AAPL", <<100, 1>>, "USD", "t2"),
       Quote("TSLA", <<3200, 1>>, "THB", "t2") >>,
    << Quote("TSLA", <<100, 1>>, "USD", "t3"), Quote("BTC", <<128, 1>>, "THB", "t3") >>,
    << >> }

DisplayCurrencies == { "USD", "THB" }

(***************************************************************************)
(* The state machine: one call of calculatePositions, run twice on the     *)
(* same arguments                                                          *)
(***************************************************************************)
VARIABLES
  initialPositions,  \* argument: rows of the initial_positions table
  transactions,      \* argument: rows of the transactions table
  fxRateUSDTHB,      \* argument: current USD/THB rate
  positions,         \* the local position map
  sorted,            \* the sorted copy of the ledger
  pc,                \* "seed", "to", "from", "done"
  i,                 \* loop index of the current loop
  run,               \* 1 or 2: which call is executing
  result1,           \* the map returned by the first call
  order,             \* history: input-array indices in replay order
  last,              \* history: the last step taken and the map before it
  ticker,            \* argument of the cash classifiers
  cash,              \* what the classifiers and the face value returned
  priceMap,          \* argument of enrichPositions: the price snapshot
  displayCurrency,   \* argument of enrichPositions and the summary
  warnings,          \* what validatePositions returned
  result,            \* what enrichPositions returned
  summary            \* what computePortfolioSummary returned

vars == << initialPositions, transactions, fxRateUSDTHB, positions, sorted,
           pc, i, run, result1, order, last,
           ticker, cash, priceMap, displayCurrency, warnings, result, summary >>

\* the state of one call of calculatePositions
foldVars == << initialPositions, transactions, sorted, i, run, result1,
               order, last >>

\* the state of the cash classifiers
cashVars == << ticker, cash >>

\* the state of the request tail: validate, enrich, summarise
viewVars == << priceMap, displayCurrency, warnings, result, summary >>

NoCash ==
  [ isCashAsset |-> FALSE, isTHBCash |-> FALSE,
    isCashAsset_services |-> FALSE, isTHBCash_services |-> FALSE,
    face |-> Undefined ]

NoSummary == [ total_value |-> Undefined ]

CashIdle == ticker = "" /\ cash = NoCash

ViewIdle ==
  /\ priceMap = <<>>
  /\ displayCurrency = "USD"
  /\ warnings = <<>>
  /\ result = <<>>
  /\ summary = NoSummary

inputs == << initialPositions, transactions, fxRateUSDTHB >>

NoStep == [ op |-> "none", branch |-> "none", tx |-> 0, before |-> <<>> ]

\* const positions = {}
NewPositions(old) == <<>>

Init ==
  /\ initialPositions \in
       { [k \in 1..Len(p) |-> InitRows[p[k]]] : p \in Portfolios(MaxInit) }
  /\ transactions \in
       { [k \in 1..Len(l) |-> LedgerEntries[l[k]]] : l \in Ledgers(MaxLedger) }
  /\ fxRateUSDTHB \in FxRates
  /\ positions = <<>>
  /\ sorted = <<>>
  /\ pc = "seed"
  /\ i = 1
  /\ run = 1
  /\ result1 = <<>>
  /\ order = <<>>
  /\ last = NoStep
  /\ CashIdle
  /\ ViewIdle

\* for (const init of initialPositions)
Seed ==
  /\ pc = "seed"
  /\ i <= Len(initialPositions)
  /\ positions' = SeedRow(positions, initialPositions[i], fxRateUSDTHB)
  /\ i' = i + 1
  /\ last' = [ op |-> "seed", branch |-> "seed", tx |-> i, before |-> positions ]
  /\ UNCHANGED << inputs, sorted, pc, run, result1, order >>
  /\ UNCHANGED << cashVars, viewVars >>

\* const sorted = [...transactions].sort(...)
Sort ==
  /\ pc = "seed"
  /\ i > Len(initialPositions)
  /\ sorted' = SortedCopy(transactions)
  /\ order' = SortOrder(transactions)
  /\ transactions' = InputAfterSort(transactions)
  /\ pc' = "to"
  /\ i' = 1
  /\ last' = [ op |-> "sort", branch |-> "sort", tx |-> 0, before |-> positions ]
  /\ UNCHANGED << initialPositions, fxRateUSDTHB, positions, run, result1 >>
  /\ UNCHANGED << cashVars, viewVars >>

\* the TO side of sorted[i]
ReplayTo ==
  /\ pc = "to"
  /\ i <= Len(sorted)
  /\ positions' = ReplayToSide(positions, sorted[i], fxRateUSDTHB)
  /\ pc' = "from"
  /\ last' = [ op |-> "to", branch |-> ToBranch(positions, sorted[i]),
               tx |-> i, before |-> positions ]
  /\ UNCHANGED << inputs, sorted, i, run, result1, order >>
  /\ UNCHANGED << cashVars, viewVars >>

\* the FROM side of sorted[i]
ReplayFrom ==
  /\ pc = "from"
  /\ positions' = ReplayFromSide(positions, sorted[i], fxRateUSDTHB)
  /\ pc' = "to"
  /\ i' = i + 1
  /\ last' = [ op |-> "from", branch |-> FromBranch(positions, sorted[i]),
               tx |-> i, before |-> positions ]
  /\ UNCHANGED << inputs, sorted, run, result1, order >>
  /\ UNCHANGED << cashVars, viewVars >>

\* STEP 3 and return positions
Cleanup ==
  /\ pc = "to"
  /\ i > Len(sorted)
  /\ positions' = CleanupPass(positions)
  /\ pc' = "done"
  /\ last' = [ op |-> "cleanup", branch |-> "cleanup", tx |-> 0, before |-> positions ]
  /\ UNCHANGED << inputs, sorted, i, run, result1, order >>
  /\ UNCHANGED << cashVars, viewVars >>

\* the caller calls calculatePositions again with the same arguments
CallAgain ==
  /\ pc = "done"
  /\ run = 1
  /\ result1' = positions
  /\ positions' = NewPositions(positions)
  /\ sorted' = <<>>
  /\ order' = <<>>
  /\ pc' = "seed"
  /\ i' = 1
  /\ run' = 2
  /\ last' = NoStep
  /\ UNCHANGED inputs
  /\ UNCHANGED << cashVars, viewVars >>

Next == Seed \/ Sort \/ ReplayTo \/ ReplayFrom \/ Cleanup \/ CallAgain

Spec == Init /\ [][Next]_vars

(***************************************************************************)
(* Second state machine: the cash classifiers and the face value applied   *)
(* to one ticker and one rate                                              *)
(***************************************************************************)
FoldIdle ==
  /\ initialPositions = <<>>
  /\ transactions = <<>>
  /\ sorted = <<>>
  /\ i = 1
  /\ run = 1
  /\ result1 = <<>>
  /\ order = <<>>
  /\ last = NoStep

InitCash ==
  /\ ticker \in Tickers
  /\ fxRateUSDTHB \in CashFxRates
  /\ cash = NoCash
  /\ pc = "classify"
  /\ positions = <<>>
  /\ FoldIdle
  /\ ViewIdle

\* isCashAsset(ticker), isTHBCash(ticker) in both files
Classify ==
  /\ pc = "classify"
  /\ cash' = [ cash EXCEPT !.isCashAsset = isCashAsset(ticker),
                           !.isTHBCash = isTHBCash(ticker),
                           !.isCashAsset_services = isCashAsset_services(ticker),
                           !.isTHBCash_services = isTHBCash_services(ticker) ]
  /\ pc' = "face"
  /\ UNCHANGED << ticker, fxRateUSDTHB, positions, foldVars, viewVars >>

\* cashFaceValueUSD(ticker, fxRateUSDTHB)
FaceValue ==
  /\ pc = "face"
  /\ cash' = [ cash EXCEPT !.face = cashFaceValueUSD(ticker, fxRateUSDTHB) ]
  /\ pc' = "faced"
  /\ UNCHANGED << ticker, fxRateUSDTHB, positions, foldVars, viewVars >>

NextCash == Classify \/ FaceValue

SpecCash == InitCash /\ [][NextCash]_vars

(***************************************************************************)
(* Third state machine: the tail of a portfolio request, which validates   *)
(* the position map, enriches it and summarises the enriched rows          *)
(***************************************************************************)
InitView ==
  /\ positions \in
       { [k \in 1..Len(h) |-> HeldRows[h[k]]] : h \in Holdings(MaxHeld) }
  /\ priceMap \in PriceMaps
  /\ fxRateUSDTHB \in FxRates
  /\ displayCurrency \in DisplayCurrencies
  /\ warnings = <<>>
  /\ result = <<>>
  /\ summary = NoSummary
  /\ pc = "validate"
  /\ FoldIdle
  /\ CashIdle

\* const warnings = validatePositions(positions)
Validate ==
  /\ pc = "validate"
  /\ warnings' = validatePositions(positions)
  /\ pc' = "enrich"
  /\ UNCHANGED << positions, fxRateUSDTHB, priceMap, displayCurrency, result,
                  summary, foldVars, cashVars >>

\* const enriched = enrichPositions(positions, priceMap, fxRate, displayCurrency)
Enrich ==
  /\ pc = "enrich"
  /\ result' = enrichPositions(positions, priceMap, fxRateUSDTHB, displayCurrency)
  /\ pc' = "summarize"
  /\ UNCHANGED << positions, fxRateUSDTHB, priceMap, displayCurrency, warnings,
                  summary, foldVars, cashVars >>

\* const summary = computePortfolioSummary(enriched, displayCurrency)
Summarize ==
  /\ pc = "summarize"
  /\ summary' = computePortfolioSummary(result, displayCurrency)
  /\ pc' = "served"
  /\ UNCHANGED << positions, fxRateUSDTHB, priceMap, displayCurrency, warnings,
                  result, foldVars, cashVars >>

NextView == Validate \/ Enrich \/ Summarize

SpecView == InitView /\ [][NextView]_vars

(***************************************************************************)
(* Fourth state machine: a whole portfolio request, which folds the        *)
(* ledger, fetches the prices, then validates, enriches and summarises     *)
(***************************************************************************)
\* const priceMap = await getPriceMap(tickers), with the display currency
\* the request asked for
FetchPrices ==
  /\ pc = "done"
  /\ run = 1
  /\ priceMap' \in PriceMaps
  /\ displayCurrency' \in DisplayCurrencies
  /\ pc' = "validate"
  /\ UNCHANGED << positions, fxRateUSDTHB, warnings, result, summary,
                  foldVars, cashVars >>

NextRequest ==
  Seed \/ Sort \/ ReplayTo \/ ReplayFrom \/ Cleanup \/ FetchPrices
    \/ Validate \/ Enrich \/ Summarize

\* amounts of everyday size: the request is replayed on the balances and
\* entries whose numbers are absent, zero or at least a thousandth
Everyday(x) == x = Undefined \/ x = Zero \/ ~RLt(RAbs(x), <<1, 1000>>)

InitRequest ==
  /\ Init
  /\ \A k \in 1..Len(initialPositions) : Everyday(initialPositions[k].quantity)
  /\ \A k \in 1..Len(transactions) :
       /\ Everyday(transactions[k].to_amount)
       /\ Everyday(transactions[k].from_amount)

SpecRequest == InitRequest /\ [][NextRequest]_vars

(***************************************************************************)
(* Properties of the returned position map                                 *)
(***************************************************************************)
Returned == pc = "done"

Consistent(pos) == pos.cost_basis = RMul(RAbs(pos.quantity), pos.avg_cost)

\* C1: for every position in the map returned by calculatePositions,
\* costBasis = |quantity| * avgCost (any initial balances, negative cash and
\* short rows included, and any ledger).
C1_CostBasisIsQtyTimesAvg ==
  Returned => \A k \in 1..Len(positions) : Consistent(positions[k])

Touches(tx, key) ==
  \/ ToSideActive(tx) /\ ToUpperCase(tx.to_ticker) = key
  \/ FromSideActive(tx) /\ ToUpperCase(tx.from_ticker) = key

\* the FX rate of the last replayed entry that touched key, the current rate
\* when no entry touched it
LastRate(key) ==
  LET touching == { j \in 1..Len(sorted) : Touches(sorted[j], key) }
  IN  IF touching = {} THEN fxRateUSDTHB
      ELSE LET j == CHOOSE m \in touching : \A n \in touching : n <= m
           IN  IF IsPositive(sorted[j].fx_rate_at_time)
               THEN sorted[j].fx_rate_at_time ELSE fxRateUSDTHB

\* C3 as stated: after folding, every cash position's avgCost is 1.0
\* (USD-class) or 1 / fxRate for the current fxRate (THB-class).
C3_CashAvgIsCurrentFace ==
  Returned => \A k \in 1..Len(positions) :
    isCashAsset(positions[k].ticker) =>
      positions[k].avg_cost =
        (IF positions[k].ticker \in {"THB", "CASH-THB"}
         THEN <<fxRateUSDTHB[2], fxRateUSDTHB[1]>> ELSE One)

\* C3 amended: after folding, every cash position's avgCost is 1.0
\* (USD-class) or, for THB-class, 1 / r where r is the effective rate
\* (fxRateAtTime if > 0, otherwise the current fxRate) of the last replayed
\* entry that touched the position, the current fxRate if none did --
\* whatever avgCost was stated and whatever the sign of the quantity.
C3_CashAvgIsLastFace ==
  Returned => \A k \in 1..Len(positions) :
    isCashAsset(positions[k].ticker) =>
      positions[k].avg_cost =
        (IF positions[k].ticker \in {"THB", "CASH-THB"}
         THEN <<LastRate(positions[k].ticker)[2], LastRate(positions[k].ticker)[1]>>
         ELSE One)

\* a THB balance last touched at a transaction-time rate, next to a negative
\* USD balance whose stated avgCost was not 1
C3_Witness ==
  /\ Returned
  /\ \E k \in 1..Len(positions) :
       /\ positions[k].ticker = "THB"
       /\ LastRate("THB") # fxRateUSDTHB
       /\ positions[k].avg_cost = <<1, 30>>
  /\ \E k \in 1..Len(positions) :
       /\ positions[k].ticker = "USD"
       /\ positions[k].quantity[1] < 0
       /\ positions[k].avg_cost = One
  /\ \E r \in 1..Len(initialPositions) :
       initialPositions[r].ticker = "USD" /\ initialPositions[r].avg_cost # One

\* C4: two runs of calculatePositions on the same initial balances, ledger
\* and fxRate return identical maps, and no step of a run alters the inputs.
C4_Deterministic ==
  [][ /\ initialPositions' = initialPositions
      /\ transactions' = transactions
      /\ fxRateUSDTHB' = fxRateUSDTHB
      /\ (pc' = "done" /\ run' = 2 => positions' = result1') ]_vars

\* the second run has returned, on a ledger that was not in date order
C4_Witness ==
  /\ Returned
  /\ run = 2
  /\ positions = result1
  /\ Len(positions) > 0
  /\ order # [k \in 1..Len(transactions) |-> k]

\* C5: entries are replayed in ascending transactionDate order, entries with
\* an identical transactionDate in their input-array order.
C5_ReplayOrder ==
  pc \in {"to", "from", "done"} =>
    /\ Len(order) = Len(transactions)
    /\ \A a, b \in 1..Len(order) : a < b =>
         LET da == DateValue(transactions[order[a]].transaction_date)
             db == DateValue(transactions[order[b]].transaction_date)
         IN  da <= db /\ (da = db => order[a] < order[b])
    /\ \A k \in 1..Len(order) : sorted[k] = transactions[order[k]]
    /\ (last.op \in {"to", "from"} => last.tx = i - (IF pc = "to" THEN 1 ELSE 0))

\* two different entries of the same instant have been replayed
C5_Witness ==
  /\ Returned
  /\ \E a, b \in 1..Len(transactions) :
       /\ a < b
       /\ transactions[a] # transactions[b]
       /\ DateValue(transactions[a].transaction_date)
            = DateValue(transactions[b].transaction_date)
       /\ Touches(transactions[a], "AAPL") /\ Touches(transactions[b], "AAPL")

DistinctDates(txs) ==
  \A a, b \in 1..Len(txs) :
    a # b => DateValue(txs[a].transaction_date) # DateValue(txs[b].transaction_date)

IndexPermutations(n) ==
  { f \in [1..n -> 1..n] : \A a, b \in 1..n : a # b => f[a] # f[b] }

Permuted(txs, f) == [k \in 1..Len(txs) |-> txs[f[k]]]

\* C6: when all transactionDate values are distinct, every permutation of
\* the ledger gives the position map that was returned.
C6_LedgerIsUnordered ==
  (Returned /\ DistinctDates(transactions)) =>
    \A f \in IndexPermutations(Len(transactions)) :
      calculatePositions(initialPositions, Permuted(transactions, f), fxRateUSDTHB)
        = positions

\* a ledger given out of date order whose replay in input order would have
\* produced a different map
C6_Witness ==
  /\ Returned
  /\ Len(transactions) = 2
  /\ DistinctDates(transactions)
  /\ order = <<2, 1>>
  /\ positions # CleanupPass(ReplayAll(SeedAll(initialPositions, Len(initialPositions),
                                               fxRateUSDTHB),
                                       transactions, 2, fxRateUSDTHB))

IsDust(q) == q # Zero /\ RLt(RAbs(q), <<1, 1000000000>>)

\* C7: no returned position has 0 < |quantity| < 1e-9; a position whose
\* quantity ended below the dust threshold is returned with quantity = 0
\* and costBasis = 0.
C7_NoDustReturned ==
  Returned =>
    \A k \in 1..Len(positions) :
      /\ ~IsDust(positions[k].quantity)
      /\ IsDust(last.before[k].quantity) =>
           positions[k].quantity = Zero /\ positions[k].cost_basis = Zero

\* a position ended the replay with a dust quantity and a non-zero cost
\* basis and was returned with both zeroed
C7_Witness ==
  /\ Returned
  /\ \E k \in 1..Len(positions) :
       /\ IsDust(last.before[k].quantity)
       /\ last.before[k].cost_basis # Zero
       /\ positions[k].quantity = Zero
       /\ positions[k].cost_basis = Zero

StatedCurrency(row) == IF row.cost_currency = "" THEN "USD" ELSE row.cost_currency

Verbatim(row, pos) ==
  /\ pos.quantity = row.quantity
  /\ pos.avg_cost = row.avg_cost
  /\ pos.cost_basis = RMul(RAbs(row.quantity), row.avg_cost)
  /\ pos.cost_currency = StatedCurrency(row)

\* C8 as stated: with an empty ledger every non-cash initial row yields a
\* position with the stated quantity and avgCost, costBasis = |quantity| *
\* avgCost and the stated currency (USD by default).
C8_SeedVerbatim ==
  (Returned /\ transactions = <<>>) =>
    \A r \in 1..Len(initialPositions) :
      LET row == initialPositions[r]
          key == ToUpperCase(row.ticker)
      IN  ~isCashAsset(row.ticker) =>
            HasKey(positions, key) /\ Verbatim(row, positions[KeyIdx(positions, key)])

\* C8 amended: with an empty ledger every non-cash initial row whose
\* quantity is 0 or at least 1e-9 in magnitude, and whose avgCost is not
\* negative when the quantity is positive, yields the stated values
\* verbatim; a row with 0 < |quantity| < 1e-9 yields quantity 0 and
\* costBasis 0 with the stated avgCost, and a long row with a negative
\* avgCost yields the stated quantity with avgCost 0 and costBasis 0.
C8_SeedVerbatimUnlessCleaned ==
  (Returned /\ transactions = <<>>) =>
    \A r \in 1..Len(initialPositions) :
      LET row == initialPositions[r]
          key == ToUpperCase(row.ticker)
          pos == positions[KeyIdx(positions, key)]
      IN  ~isCashAsset(row.ticker) =>
            /\ HasKey(positions, key)
            /\ pos.cost_currency = StatedCurrency(row)
            /\ IF IsDust(row.quantity)
               THEN /\ pos.quantity = Zero
                    /\ pos.cost_basis = Zero
                    /\ pos.avg_cost = row.avg_cost
               ELSE IF row.quantity[1] > 0 /\ row.avg_cost[1] < 0
               THEN /\ pos.quantity = row.quantity
                    /\ pos.cost_basis = Zero
                    /\ pos.avg_cost = Zero
               ELSE Verbatim(row, pos)

\* a short opening lot in THB returned verbatim, cost basis positive
C8_Witness ==
  /\ Returned
  /\ transactions = <<>>
  /\ \E r \in 1..Len(initialPositions) :
       /\ initialPositions[r].ticker = "TSLA"
       /\ initialPositions[r].quantity = <<-10, 1>>
       /\ \E k \in 1..Len(positions) :
            /\ positions[k].ticker = "TSLA"
            /\ positions[k].quantity = <<-10, 1>>
            /\ positions[k].avg_cost = <<200, 1>>
            /\ positions[k].cost_basis = <<2000, 1>>
            /\ positions[k].cost_currency = "THB"

(***************************************************************************)
(* Properties of one replayed side, read from the history variable `last`  *)
(***************************************************************************)
\* the position keyed by ticker in a map, all zero when there is none
PosIn(ps, t) ==
  IF HasKey(ps, ToUpperCase(t))
  THEN ps[KeyIdx(ps, ToUpperCase(t))]
  ELSE [ quantity |-> Zero, avg_cost |-> Zero, cost_basis |-> Zero,
         realized_pnl |-> Zero ]

LastTx == sorted[last.tx]

\* the last step was a TO side receiving toAmount > 0 of a non-cash ticker
\* whose position was long or zero
BuyHappened ==
  /\ last.op = "to"
  /\ LastTx.to_ticker # ""
  /\ LastTx.to_amount # Undefined /\ LastTx.to_amount[1] > 0
  /\ ~isCashAsset(LastTx.to_ticker)
  /\ PosIn(last.before, LastTx.to_ticker).quantity[1] >= 0

\* C9: such a TO side is a weighted-average buy: quantity increases by
\* toAmount, costBasis by fromAmount plus the fee (its magnitude) only when
\* the fee currency equals toTicker, and avgCost becomes costBasis /
\* quantity (0 when quantity is 0).
C9_WeightedAverageBuy ==
  BuyHappened =>
    LET old == PosIn(last.before, LastTx.to_ticker)
        new == PosIn(positions, LastTx.to_ticker)
        fee == IF LastTx.fee_currency = LastTx.to_ticker
               THEN RAbs(LastTx.fees) ELSE Zero
        paid == IF LastTx.from_amount = Undefined THEN Zero ELSE LastTx.from_amount
    IN  /\ new.quantity = RAdd(old.quantity, LastTx.to_amount)
        /\ new.cost_basis = RAdd(old.cost_basis, RAdd(paid, fee))
        /\ new.avg_cost = (IF new.quantity = Zero THEN Zero
                           ELSE RDiv(new.cost_basis, new.quantity))

\* the claim's example, 10 @ 100 plus 5 for 500, directly after the buy
C9_Witness ==
  /\ BuyHappened
  /\ PosIn(last.before, "AAPL").quantity = <<10, 1>>
  /\ PosIn(last.before, "AAPL").cost_basis = <<1000, 1>>
  /\ LastTx.to_ticker = "AAPL" /\ LastTx.from_amount = <<500, 1>>
  /\ LastTx.fee_currency = ""
  /\ PosIn(positions, "AAPL").quantity = <<15, 1>>
  /\ PosIn(positions, "AAPL").cost_basis = <<1500, 1>>
  /\ PosIn(positions, "AAPL").avg_cost = <<100, 1>>

\* the last step was a FROM side giving up fromAmount > 0 of a non-cash
\* ticker whose position was long
SellHappened ==
  /\ last.op = "from"
  /\ LastTx.from_ticker # ""
  /\ LastTx.from_amount # Undefined /\ LastTx.from_amount[1] > 0
  /\ ~isCashAsset(LastTx.from_ticker)
  /\ PosIn(last.before, LastTx.from_ticker).quantity[1] > 0

\* C10: a sell from a long leaves avgCost unchanged, reduces quantity by
\* fromAmount plus the in-kind fee and costBasis by that many units *
\* avgCost; when the resulting quantity is below 1e-9 both become 0; and
\* the cleanup pass returns a closed position with its avgCost retained.
C10_SellKeepsAvgCost ==
  /\ SellHappened =>
       LET old   == PosIn(last.before, LastTx.from_ticker)
           new   == PosIn(positions, LastTx.from_ticker)
           fee   == IF LastTx.fee_currency = LastTx.from_ticker
                    THEN RAbs(LastTx.fees) ELSE Zero
           units == RAdd(LastTx.from_amount, fee)
           left  == RSub(old.quantity, units)
       IN  /\ new.avg_cost = old.avg_cost
           /\ IF RLt(left, <<1, 1000000000>>)
              THEN new.quantity = Zero /\ new.cost_basis = Zero
              ELSE /\ new.quantity = left
                   /\ new.cost_basis = RSub(old.cost_basis, RMul(units, old.avg_cost))
  /\ Returned =>
       \A k \in 1..Len(positions) :
         (last.before[k].quantity = Zero /\ last.before[k].cost_basis = Zero)
           => positions[k].avg_cost = last.before[k].avg_cost

\* a position that a sell closed is returned with quantity 0, costBasis 0
\* and the avgCost it had before the sell
C10_Witness ==
  /\ Returned
  /\ Len(sorted) > 0
  /\ sorted[Len(sorted)].from_ticker = "AAPL"
  /\ sorted[Len(sorted)].from_amount = <<20, 1>>
  /\ PosIn(positions, "AAPL").quantity = Zero
  /\ PosIn(positions, "AAPL").cost_basis = Zero
  /\ PosIn(positions, "AAPL").avg_cost = <<100, 1>>
  /\ PosIn(positions, "AAPL").realized_pnl # Zero

\* C11: a sell from a long adds exactly proceeds - units sold * avgCost
\* before the sell to realizedPnL, with proceeds = toAmount (0 when the
\* entry has no TO side) and units sold = fromAmount + the in-kind fee.
C11_SellRealizesProceedsMinusCost ==
  SellHappened =>
    LET old      == PosIn(last.before, LastTx.from_ticker)
        new      == PosIn(positions, LastTx.from_ticker)
        fee      == IF LastTx.fee_currency = LastTx.from_ticker
                    THEN RAbs(LastTx.fees) ELSE Zero
        units    == RAdd(LastTx.from_amount, fee)
        proceeds == IF LastTx.to_ticker = "" \/ LastTx.to_amount = Undefined
                    THEN Zero ELSE LastTx.to_amount
    IN  new.realized_pnl =
          RAdd(old.realized_pnl, RSub(proceeds, RMul(units, old.avg_cost)))

\* the last step was a FROM side giving up fromAmount > 0 of a non-cash
\* ticker whose position was zero or negative
ShortHappened ==
  /\ last.op = "from"
  /\ LastTx.from_ticker # ""
  /\ LastTx.from_amount # Undefined /\ LastTx.from_amount[1] > 0
  /\ ~isCashAsset(LastTx.from_ticker)
  /\ PosIn(last.before, LastTx.from_ticker).quantity[1] <= 0

\* C12: a FROM side on a zero or negative non-cash position is a short
\* entry: quantity decreases by fromAmount, avgCost becomes (previous short
\* quantity * previous avgCost + toAmount) / (previous short quantity +
\* fromAmount), and costBasis = |quantity| * avgCost.
C12_ShortEntry ==
  ShortHappened =>
    LET old      == PosIn(last.before, LastTx.from_ticker)
        new      == PosIn(positions, LastTx.from_ticker)
        prevQty  == RAbs(old.quantity)
        proceeds == IF LastTx.to_amount = Undefined THEN Zero ELSE LastTx.to_amount
    IN  /\ new.quantity = RSub(old.quantity, LastTx.from_amount)
        /\ new.avg_cost = RDiv(RAdd(RMul(prevQty, old.avg_cost), proceeds),
                               RAdd(prevQty, LastTx.from_amount))
        /\ new.cost_basis = RMul(RAbs(new.quantity), new.avg_cost)

\* the claim's example: shorting 10 units for 2000 on an empty position
C12_Witness ==
  /\ ShortHappened
  /\ LastTx.from_ticker = "TSLA"
  /\ LastTx.from_amount = <<10, 1>> /\ LastTx.to_amount = <<2000, 1>>
  /\ PosIn(last.before, "TSLA").quantity = Zero
  /\ PosIn(positions, "TSLA").quantity = <<-10, 1>>
  /\ PosIn(positions, "TSLA").avg_cost = <<200, 1>>
  /\ PosIn(positions, "TSLA").cost_basis = <<2000, 1>>

\* adding to an open short averages the entry price over both lots
C12_WitnessAddToShort ==
  /\ ShortHappened
  /\ PosIn(last.before, LastTx.from_ticker).quantity[1] < 0
  /\ PosIn(positions, LastTx.from_ticker).avg_cost
       # PosIn(last.before, LastTx.from_ticker).avg_cost

\* the last step was a TO side receiving toAmount > 0 of a non-cash ticker
\* whose position was short
CoverHappened ==
  /\ last.op = "to"
  /\ LastTx.to_ticker # ""
  /\ LastTx.to_amount # Undefined /\ LastTx.to_amount[1] > 0
  /\ ~isCashAsset(LastTx.to_ticker)
  /\ PosIn(last.before, LastTx.to_ticker).quantity[1] < 0

\* C13: a TO side on a short position covers unitsCovered = min(toAmount,
\* |quantity|): realizedPnL increases by (avgCost - fromAmount /
\* unitsCovered) * unitsCovered, quantity moves toward zero by unitsCovered,
\* avgCost is preserved, and costBasis = |quantity| * avgCost.
C13_ShortCover ==
  CoverHappened =>
    LET old          == PosIn(last.before, LastTx.to_ticker)
        new          == PosIn(positions, LastTx.to_ticker)
        unitsCovered == RMin(LastTx.to_amount, RAbs(old.quantity))
        paid         == IF LastTx.from_amount = Undefined THEN Zero ELSE LastTx.from_amount
    IN  /\ new.realized_pnl =
             RAdd(old.realized_pnl,
                  RMul(RSub(old.avg_cost, RDiv(paid, unitsCovered)), unitsCovered))
        /\ new.quantity = RAdd(old.quantity, unitsCovered)
        /\ new.avg_cost = old.avg_cost
        /\ new.cost_basis = RMul(RAbs(new.quantity), new.avg_cost)

\* the claim's example: a 10-unit short at avgCost 200 covered for 1500
C13_Witness ==
  /\ CoverHappened
  /\ LastTx.to_ticker = "TSLA"
  /\ LastTx.to_amount = <<10, 1>> /\ LastTx.from_amount = <<1500, 1>>
  /\ PosIn(last.before, "TSLA").quantity = <<-10, 1>>
  /\ PosIn(last.before, "TSLA").avg_cost = <<200, 1>>
  /\ PosIn(positions, "TSLA").quantity = Zero
  /\ PosIn(positions, "TSLA").realized_pnl
       = RAdd(PosIn(last.before, "TSLA").realized_pnl, <<500, 1>>)

(***************************************************************************)
(* Properties of the cash classifiers and the face value                   *)
(***************************************************************************)
Classified == pc \in {"face", "faced"}

Faced == pc = "faced"

\* C14: the face value is 1/fxRate for a THB-cash ticker and 1.0 for any
\* other ticker; a zero or negative fxRate is replaced by the default 35.0,
\* so the result is never Infinity, NaN or negative.
C14_FaceValueGuarded ==
  Faced =>
    /\ cash.face = (IF cash.isTHBCash
                    THEN RDiv(One, IF IsPositive(fxRateUSDTHB)
                                   THEN fxRateUSDTHB ELSE <<35, 1>>)
                    ELSE One)
    /\ cash.face # Undefined /\ cash.face[2] > 0 /\ cash.face[1] > 0

\* C20: isCashAsset is true, case-insensitively, exactly for the allow-list
\* USD, THB, USDT, USDC, BUSD, DAI, TUSD, FRAX and for the forms CASH-*,
\* *-CASH and a stablecoin prefix; isTHBCash is true exactly for THB,
\* CASH-THB and tickers ending in -THB.
C20_CashClassifier ==
  Classified =>
    LET u == ToUpperCase(ticker)
    IN  /\ cash.isCashAsset <=>
             /\ ticker # ""
             /\ \/ u \in {"USD", "THB", "USDT", "USDC", "BUSD", "DAI", "TUSD", "FRAX"}
                \/ StartsWith(u, "CASH-") \/ EndsWith(u, "-CASH")
                \/ StartsWith(u, "USDT") \/ StartsWith(u, "USDC")
                \/ StartsWith(u, "BUSD")
        /\ cash.isTHBCash <=>
             /\ ticker # ""
             /\ (u = "THB" \/ u = "CASH-THB" \/ EndsWith(u, "-THB"))

\* the same table read against the classifiers of the services variant
ServicesClassifierTable ==
  Classified =>
    LET u == ToUpperCase(ticker)
    IN  /\ cash.isCashAsset_services <=>
             /\ ticker # ""
             /\ \/ u \in {"USD", "THB", "USDT", "USDC", "BUSD", "DAI", "TUSD", "FRAX"}
                \/ StartsWith(u, "CASH-") \/ EndsWith(u, "-CASH")
                \/ StartsWith(u, "USDT") \/ StartsWith(u, "USDC")
                \/ StartsWith(u, "BUSD")
        /\ cash.isTHBCash_services <=>
             /\ ticker # ""
             /\ (u = "THB" \/ u = "CASH-THB" \/ EndsWith(u, "-THB"))

(***************************************************************************)
(* Properties of the request tail                                          *)
(***************************************************************************)
Validated == pc \in {"enrich", "summarize", "served"}

Enriched == pc \in {"summarize", "served"}

Summarized == pc = "served"

HasPrice(t) == \E k \in 1..Len(priceMap) : priceMap[k].ticker = t

RowsOf(t) == { k \in 1..Len(result) : result[k].ticker = t }

\* the entry of the position map a row was made from
Source(row) == CHOOSE k \in 1..Len(positions) : positions[k].ticker = row.ticker

\* C15: enrichPositions returns exactly one row for each position whose
\* quantity is not 0 and whose ticker has an entry in the price snapshot,
\* and no row for a position with quantity 0 or without a price.
C15_RowsForPricedOpenPositions ==
  Enriched =>
    \A k \in 1..Len(positions) :
      Cardinality(RowsOf(positions[k].ticker))
        = (IF positions[k].quantity # Zero /\ HasPrice(positions[k].ticker)
           THEN 1 ELSE 0)

\* the equations common to both readings of C16
ValueEquations(row) ==
  LET absQty == RAbs(row.quantity)
  IN  /\ row.current_value = RMul(row.current_price, absQty)
      /\ row.cost_basis = RMul(row.avg_cost, absQty)
      /\ row.unrealized_pnl =
           (IF row.quantity[1] < 0
            THEN RSub(row.cost_basis, row.current_value)
            ELSE RSub(row.current_value, row.cost_basis))

\* C16 as stated: for every enriched row currentValue = displayPrice *
\* |quantity|, costDisplay = displayAvgCost * |quantity|, unrealizedPnL =
\* currentValue - costDisplay for a long and costDisplay - currentValue for
\* a short, and unrealizedPnLPct = unrealizedPnL / costDisplay * 100, or 0
\* when costDisplay is 0.
C16_RowEquations ==
  Enriched =>
    \A k \in 1..Len(result) :
      /\ ValueEquations(result[k])
      /\ result[k].unrealized_pnl_pct =
           (IF result[k].cost_basis = Zero THEN Zero
            ELSE RMul(RDiv(result[k].unrealized_pnl, result[k].cost_basis), <<100, 1>>))

\* C16 amended: the same equations, with unrealizedPnLPct = unrealizedPnL /
\* costDisplay * 100 rounded to 4 decimal places when costDisplay is
\* positive and 0 otherwise.
C16_RowEquationsRounded ==
  Enriched =>
    \A k \in 1..Len(result) :
      /\ ValueEquations(result[k])
      /\ result[k].unrealized_pnl_pct =
           (IF result[k].cost_basis[1] > 0
            THEN ToFixed(RMul(RDiv(result[k].unrealized_pnl, result[k].cost_basis),
                              <<100, 1>>), 4)
            ELSE Zero)

\* a short in profit and a long whose percentage does not end after four
\* decimals, enriched in the same request
C16_Witness ==
  /\ Enriched
  /\ \E k \in 1..Len(result) :
       /\ result[k].ticker = "TSLA" /\ result[k].is_short
       /\ result[k].current_value = <<1000, 1>>
       /\ result[k].cost_basis[1] > 0
       /\ result[k].unrealized_pnl = RSub(result[k].cost_basis, <<1000, 1>>)
  /\ \E k \in 1..Len(result) :
       /\ result[k].ticker = "BTC"
       /\ result[k].unrealized_pnl_pct = <<333333, 10000>>

\* C17: in the output of enrichPositions every cash-like ticker comes after
\* every non-cash ticker; within each group rows are in descending
\* |currentValue|; rows that tie keep the iteration order of the input.
C17_DisplayOrder ==
  Enriched =>
    \A a, b \in 1..Len(result) :
      a < b =>
        LET aC == isCashAsset(result[a].ticker)
            bC == isCashAsset(result[b].ticker)
            aV == RAbs(result[a].current_value)
            bV == RAbs(result[b].current_value)
        IN  /\ aC => bC
            /\ (aC = bC) => RLe(bV, aV)
            /\ (aC = bC /\ aV = bV) => Source(result[a]) < Source(result[b])

\* three rows: cash that came first in the map is last, and two
\* investments worth the same stay in map order although the sort moved rows
C17_Witness ==
  /\ Enriched
  /\ Len(result) = 3
  /\ isCashAsset(positions[1].ticker)
  /\ isCashAsset(result[3].ticker)
  /\ ~isCashAsset(result[1].ticker) /\ ~isCashAsset(result[2].ticker)
  /\ RAbs(result[1].current_value) = RAbs(result[2].current_value)
  /\ result[1].current_value # Zero
  /\ Source(result[1]) < Source(result[2])

\* the sum of a sequence of numbers
RECURSIVE RSum(_, _)
RSum(xs, n) == IF n = 0 THEN Zero ELSE RAdd(RSum(xs, n - 1), xs[n])

SumValue == RSum([k \in 1..Len(result) |-> result[k].current_value], Len(result))

SumCost ==
  RSum([k \in 1..Len(result) |->
          IF isCashAsset(result[k].ticker) THEN Zero ELSE result[k].cost_basis],
       Len(result))

SumRealized ==
  RSum([k \in 1..Len(result) |->
          IF isCashAsset(result[k].ticker) THEN Zero ELSE result[k].realized_pnl],
       Len(result))

\* C18 as stated: the summary's totalValue is the sum of currentValue over
\* all rows, cash included; totalCost and realizedPnL are sums over the
\* non-cash rows only; unrealizedPnL is totalValue - totalCost; the
\* percentage is 0 when totalCost is 0.
C18_SummaryTotals ==
  Summarized =>
    /\ summary.total_value = SumValue
    /\ summary.total_cost = SumCost
    /\ summary.realized_pnl = SumRealized
    /\ summary.unrealized_pnl = RSub(summary.total_value, summary.total_cost)
    /\ summary.total_cost = Zero => summary.unrealized_pnl_pct = Zero

\* C18 amended: each total is the corresponding sum rounded to 2 decimal
\* places, unrealizedPnL is the difference of the unrounded sums rounded to
\* 2 places, and the percentage is that difference over the unrounded cost
\* * 100 rounded to 4 places, or 0 when the cost sum is not positive.
C18_SummaryTotalsRounded ==
  Summarized =>
    /\ summary.total_value = ToFixed(SumValue, 2)
    /\ summary.total_cost = ToFixed(SumCost, 2)
    /\ summary.realized_pnl = ToFixed(SumRealized, 2)
    /\ summary.unrealized_pnl = ToFixed(RSub(SumValue, SumCost), 2)
    /\ summary.unrealized_pnl_pct =
         (IF SumCost[1] > 0
          THEN ToFixed(RMul(RDiv(RSub(SumValue, SumCost), SumCost), <<100, 1>>), 4)
          ELSE Zero)

\* cash and investments summarised together, the cash value needing
\* rounding: 350 THB at 32 THB/USD are 10.9375 USD
C18_Witness ==
  /\ Summarized
  /\ displayCurrency = "USD"
  /\ \E k \in 1..Len(result) :
       result[k].ticker = "THB" /\ result[k].current_value = <<175, 16>>
  /\ \E k \in 1..Len(result) :
       result[k].ticker = "AAPL" /\ result[k].realized_pnl = <<100, 1>>
  /\ summary.total_cost[1] > 0
  /\ summary.realized_pnl # Zero
  /\ summary.total_value # SumValue

\* C19: validatePositions returns at least one warning for every position
\* with a positive quantity and a negative costBasis, a negative avgCost, a
\* cash avgCost deviating from its face value by more than the tolerance,
\* or a negative quantity.
C19_EveryAnomalyWarned ==
  Validated =>
    \A k \in 1..Len(positions) :
      LET pos  == positions[k]
          face == IF isTHBCash(pos.ticker) THEN RDiv(One, fxRateUSDTHB) ELSE One
      IN  (\/ pos.quantity[1] > 0 /\ pos.cost_basis[1] < 0
           \/ pos.avg_cost[1] < 0
           \/ /\ isCashAsset(pos.ticker)
              /\ RLt(<<1, 100>>, RAbs(RSub(pos.avg_cost, face)))
           \/ pos.quantity[1] < 0)
          => \E w \in 1..Len(warnings) : warnings[w].ticker = pos.ticker

(***************************************************************************)
(* Properties of a whole request                                           *)
(***************************************************************************)
\* neither NaN nor an infinity
Finite(x) == x[2] > 0

FinitePosition(p) ==
  Finite(p.quantity) /\ Finite(p.avg_cost) /\ Finite(p.cost_basis)
    /\ Finite(p.realized_pnl)

FiniteRow(r) ==
  Finite(r.quantity) /\ Finite(r.avg_cost) /\ Finite(r.cost_basis)
    /\ Finite(r.current_price) /\ Finite(r.current_value)
    /\ Finite(r.unrealized_pnl) /\ Finite(r.unrealized_pnl_pct)
    /\ Finite(r.realized_pnl)

FiniteSummary(t) ==
  Finite(t.total_value) /\ Finite(t.total_cost) /\ Finite(t.unrealized_pnl)
    /\ Finite(t.unrealized_pnl_pct) /\ Finite(t.realized_pnl)
    /\ Finite(t.total_pnl)

\* C21: with a positive fxRate no step of calculatePositions,
\* enrichPositions or computePortfolioSummary divides by zero: after every
\* step every number of the position map, of the enriched rows and of the
\* summary is finite, and where the divisor is 0 (a closed position, a row
\* without cost, a portfolio without cost) the result is 0 or left as it was.
C21_NoDivisionByZero ==
  /\ \A k \in 1..Len(positions) : FinitePosition(positions[k])
  /\ \A k \in 1..Len(result) :
       /\ FiniteRow(result[k])
       /\ result[k].cost_basis = Zero => result[k].unrealized_pnl_pct = Zero
  /\ Summarized =>
       /\ FiniteSummary(summary)
       /\ SumCost = Zero => summary.unrealized_pnl_pct = Zero

\* a request whose fold closed a position, whose enrichment met a row
\* without cost and whose summary has no cost to divide by
C21_Witness ==
  /\ Summarized
  /\ fxRateUSDTHB[1] > 0
  /\ \E k \in 1..Len(positions) : positions[k].quantity = Zero
  /\ \E k \in 1..Len(result) :
       result[k].cost_basis = Zero /\ result[k].unrealized_pnl_pct = Zero
  /\ SumCost = Zero /\ summary.unrealized_pnl_pct = Zero

(***************************************************************************)
(* Cash sides, swaps and what one replayed entry may change                *)
(***************************************************************************)
\* the last step was a TO or FROM side on a cash ticker
CashSideHappened == last.op \in {"to", "from"} /\ last.branch = "cash"

\* the ticker of the side replayed last
LastTicker == IF last.op = "to" THEN LastTx.to_ticker ELSE LastTx.from_ticker

\* the entry's effective FX rate: fxRateAtTime if > 0, else the current rate
EffectiveRate(tx) ==
  IF tx.fx_rate_at_time # Undefined /\ tx.fx_rate_at_time[1] > 0
  THEN tx.fx_rate_at_time ELSE fxRateUSDTHB

\* face value in USD of one unit of the cash ticker t at rate r
FaceAt(t, r) ==
  IF ToUpperCase(t) \in {"THB", "CASH-THB"} THEN <<r[2], r[1]>> ELSE One

\* C22: whenever the TO or FROM side of an entry touches a cash position,
\* its avgCost is reset to the face value at the entry's effective FX rate
\* and its costBasis is |quantity| x face for the whole balance; it is never
\* weighted-averaged.
C22_CashResetToFace ==
  CashSideHappened =>
    LET new  == PosIn(positions, LastTicker)
        face == FaceAt(LastTicker, EffectiveRate(LastTx))
    IN  /\ new.avg_cost = face
        /\ new.cost_basis = RMul(RAbs(new.quantity), face)

\* 700 THB received at 30 THB/USD on a balance of 350 THB carried at 1/32:
\* the whole 1050 THB are now carried at 1/30, 35 USD, where averaging
\* would give 350/32 + 700/30
C22_Witness ==
  /\ CashSideHappened
  /\ last.op = "to"
  /\ ToUpperCase(LastTx.to_ticker) = "THB"
  /\ LastTx.fx_rate_at_time = <<30, 1>>
  /\ fxRateUSDTHB = <<32, 1>>
  /\ PosIn(last.before, "THB").quantity = <<350, 1>>
  /\ PosIn(last.before, "THB").avg_cost = <<1, 32>>
  /\ PosIn(positions, "THB").quantity = <<1050, 1>>
  /\ PosIn(positions, "THB").avg_cost = <<1, 30>>
  /\ PosIn(positions, "THB").cost_basis = <<35, 1>>

\* cash spent into an overdraft: the negative balance is carried at face too
C22_WitnessSpent ==
  /\ CashSideHappened
  /\ last.op = "from"
  /\ PosIn(positions, LastTx.from_ticker).quantity[1] < 0
  /\ PosIn(positions, LastTx.from_ticker).cost_basis[1] > 0

\* the entry replayed last gives up units of a non-cash asset for units of
\* another non-cash asset
SwapEntry(tx) ==
  /\ ToSideActive(tx) /\ FromSideActive(tx)
  /\ ~isCashAsset(tx.to_ticker) /\ ~isCashAsset(tx.from_ticker)
  /\ ToUpperCase(tx.to_ticker) # ToUpperCase(tx.from_ticker)

\* C23: in a swap from non-cash A to non-cash B, B's cost basis increases
\* by the value of the A given up (the units given up at A's carried
\* avgCost), not by A's unit count, and A's quantity and cost basis
\* decrease.
C23_SwapInheritsValue ==
  /\ (last.op = "to" /\ last.branch = "buy" /\ SwapEntry(LastTx)
        /\ PosIn(last.before, LastTx.from_ticker).quantity[1] > 0) =>
       LET a    == PosIn(last.before, LastTx.from_ticker)
           oldB == PosIn(last.before, LastTx.to_ticker)
           newB == PosIn(positions, LastTx.to_ticker)
       IN  RSub(newB.cost_basis, oldB.cost_basis) =
             RMul(LastTx.from_amount, a.avg_cost)
  /\ (last.op = "from" /\ last.branch = "sell" /\ SwapEntry(LastTx)) =>
       LET oldA == PosIn(last.before, LastTx.from_ticker)
           newA == PosIn(positions, LastTx.from_ticker)
       IN  /\ RLt(newA.quantity, oldA.quantity)
           /\ RLt(newA.cost_basis, oldA.cost_basis)

(***************************************************************************)
(* The two implementations of calculatePositions                           *)
(***************************************************************************)
\* the map the services variant returns for the same arguments
ServicesPositions ==
  calculatePositions_services(initialPositions, transactions, fxRateUSDTHB)

\* the map of the canonical fold after the first n entries and, when
\* toDone, the TO side of entry n + 1
FoldBefore(n, toDone) ==
  LET ps == ReplayAll(SeedAll(initialPositions, Len(initialPositions), fxRateUSDTHB),
                      sorted, n, fxRateUSDTHB)
  IN  IF toDone THEN ReplayToSide(ps, sorted[n + 1], fxRateUSDTHB) ELSE ps

\* no non-cash position is seeded negative and no non-cash asset is given
\* up while its quantity is zero or negative
NoShortHandling ==
  /\ \A k \in 1..Len(initialPositions) :
       ~isCashAsset(initialPositions[k].ticker) =>
         initialPositions[k].quantity[1] >= 0
  /\ \A n \in 1..Len(sorted) :
       FromBranch(FoldBefore(n - 1, TRUE), sorted[n]) # "short"

\* the two positions carry the same five fields
SameFields(p, q) ==
  /\ p.quantity = q.quantity
  /\ p.avg_cost = q.avg_cost
  /\ p.cost_basis = q.cost_basis
  /\ p.cost_currency = q.cost_currency
  /\ p.realized_pnl = q.realized_pnl

\* C24: the two calculatePositions implementations differ only in short
\* handling: when no non-cash position is seeded negative and no non-cash
\* asset is given up while its quantity is zero or negative, both return
\* the same quantity, avgCost, costBasis, costCurrency and realizedPnL for
\* every ticker.
C24_SameAsServices ==
  (Returned /\ NoShortHandling) =>
    /\ { positions[k].ticker : k \in 1..Len(positions) } =
         { ServicesPositions[k].ticker : k \in 1..Len(ServicesPositions) }
    /\ \A k \in 1..Len(positions) :
         HasKey(ServicesPositions, positions[k].ticker) =>
           SameFields(positions[k],
                      ServicesPositions[KeyIdx(ServicesPositions, positions[k].ticker)])

\* C24, narrowed to upper-case tickers and to the plainest case of all: one
\* purchase paid from a cash balance that does not cover it
C24_PlainPurchase ==
  ( /\ Returned
    /\ initialPositions = <<>>
    /\ Len(sorted) = 1
    /\ ToBranch(<<>>, sorted[1]) = "buy"
    /\ FromBranch(<<>>, sorted[1]) = "cash"
    /\ sorted[1].to_ticker = ToUpperCase(sorted[1].to_ticker)
    /\ sorted[1].fx_rate_at_time = Undefined ) =>
    \A k \in 1..Len(positions) :
      SameFields(positions[k],
                 ServicesPositions[KeyIdx(ServicesPositions, positions[k].ticker)])

(***************************************************************************)
(* One side never carries a position across zero                           *)
(***************************************************************************)
\* the last step was a TO or FROM side on a non-cash ticker
NonCashSideHappened ==
  last.op \in {"to", "from"} /\ last.branch \in {"buy", "cover", "sell", "short"}

\* C25: no single ledger entry moves a non-cash position across zero:
\* selling more units than a long holds leaves quantity 0 (never a short),
\* covering more units than a short holds leaves quantity 0 (never a long).
C25_NeverAcrossZero ==
  NonCashSideHappened =>
    LET old  == PosIn(last.before, LastTicker)
        new  == PosIn(positions, LastTicker)
        sold == RAdd(LastTx.from_amount,
                     IF LastTx.fee_currency = LastTx.from_ticker
                     THEN RAbs(LastTx.fees) ELSE Zero)
    IN  /\ old.quantity[1] > 0 => new.quantity[1] >= 0
        /\ old.quantity[1] < 0 => new.quantity[1] <= 0
        /\ (last.branch = "sell" /\ RLe(old.quantity, sold)) => new.quantity = Zero
        /\ (last.branch = "cover" /\ RLe(RAbs(old.quantity), LastTx.to_amount)) =>
             new.quantity = Zero

\* 20 AAPL (and an in-kind fee of 1) sold out of a long of 10: nothing is
\* left and no short is opened
C25_Witness ==
  /\ NonCashSideHappened
  /\ last.branch = "sell"
  /\ PosIn(last.before, "AAPL").quantity = <<10, 1>>
  /\ LastTx.from_ticker = "AAPL" /\ LastTx.from_amount = <<20, 1>>
  /\ PosIn(positions, "AAPL").quantity = Zero
  /\ PosIn(positions, "AAPL").cost_basis = Zero

\* 10 TSLA bought back on a short of 6: the short is closed and no long is
\* opened
C25_WitnessOverCover ==
  /\ NonCashSideHappened
  /\ last.branch = "cover"
  /\ PosIn(last.before, "TSLA").quantity = <<-6, 1>>
  /\ LastTx.to_amount = <<10, 1>>
  /\ PosIn(positions, "TSLA").quantity = Zero

(***************************************************************************)
(* Where realized P&L comes from                                           *)
(***************************************************************************)
\* the last step was a long sell or a short cover of the position keyed t
RealizingStepOn(t) ==
  /\ last.op \in {"to", "from"}
  /\ last.branch \in {"sell", "cover"}
  /\ ToUpperCase(LastTicker) = t

\* C26: realizedPnL changes only on a long sell or a short cover; seeding,
\* cash receipts and spends, buys, short entries and the cleanup pass leave
\* it unchanged, so every cash position has realizedPnL = 0.
C26_RealizedOnlyBySellOrCover ==
  /\ \A k \in 1..Len(positions) :
       positions[k].realized_pnl # PosIn(last.before, positions[k].ticker).realized_pnl
         => RealizingStepOn(positions[k].ticker)
  /\ \A k \in 1..Len(positions) :
       isCashAsset(positions[k].ticker) => positions[k].realized_pnl = Zero

\* 5 AAPL sold for 600 USD: the sale realizes 100 on AAPL while the USD
\* balance that received the 600 has realized nothing
C26_Witness ==
  /\ RealizingStepOn("AAPL")
  /\ last.branch = "sell"
  /\ PosIn(last.before, "AAPL").realized_pnl = Zero
  /\ PosIn(positions, "AAPL").realized_pnl = <<100, 1>>
  /\ HasKey(positions, "USD")
  /\ LastTx.to_ticker = "USD" /\ LastTx.to_amount = <<600, 1>>
  /\ PosIn(positions, "USD").quantity[1] > 0
  /\ PosIn(positions, "USD").realized_pnl = Zero

(***************************************************************************)
(* What one replayed side may change                                       *)
(***************************************************************************)
\* the amount of the side replayed last
LastAmount == IF last.op = "to" THEN LastTx.to_amount ELSE LastTx.from_amount

\* the side replayed last names a ticker and an amount > 0
LastSideInForce ==
  LastTicker # "" /\ LastAmount # Undefined /\ LastAmount[1] > 0

\* C27: replaying one entry changes only the positions keyed by its
\* upper-cased toTicker and fromTicker; a side whose ticker is absent or
\* whose amount is not > 0 neither changes nor creates a position.
C27_OnlyNamedTickersChange ==
  last.op \in {"to", "from"} =>
    /\ Len(positions) >= Len(last.before)
    /\ \A k \in 1..Len(positions) :
         (k > Len(last.before) \/ positions[k] # last.before[k]) =>
           /\ LastSideInForce
           /\ positions[k].ticker = ToUpperCase(LastTicker)
    /\ ~LastSideInForce => positions = last.before

\* a withdrawal of 20 USD whose TO side names AAPL with amount 0: no AAPL
\* position appears; and its FROM side changes the USD balance only
C27_Witness ==
  /\ last.op = "to"
  /\ LastTx.to_ticker = "AAPL" /\ LastTx.to_amount = Zero
  /\ LastTx.from_ticker = "USD"
  /\ ~HasKey(positions, "AAPL")
  /\ Len(last.before) > 0
  /\ positions = last.before

\* 700 'thb' received next to another position: the position keyed THB
\* changes, the other one does not
C27_WitnessOtherUntouched ==
  /\ last.op = "to"
  /\ LastTx.to_ticker = "thb"
  /\ LastSideInForce
  /\ \E k \in 1..Len(last.before) :
       last.before[k].ticker # "THB" /\ positions[k] = last.before[k]
  /\ PosIn(positions, "THB") # PosIn(last.before, "THB")

(***************************************************************************)
(* The currency a position is carried in                                   *)
(***************************************************************************)
\* C28: replay never changes the costCurrency of an existing non-cash
\* position: it stays the currency of its initial balance, or the
\* transactionCurrency of the entry that first created it.
C28_CostCurrencyFixed ==
  last.op \in {"to", "from"} =>
    \A k \in 1..Len(last.before) :
      ~isCashAsset(last.before[k].ticker) =>
        positions[k].cost_currency = last.before[k].cost_currency

(***************************************************************************)
(* The summary's unrealized P&L against the rows                           *)
(***************************************************************************)
\* the sum of unrealized_pnl over the non-cash rows
SumUnrealized ==
  RSum([k \in 1..Len(result) |->
          IF isCashAsset(result[k].ticker) THEN Zero
          ELSE result[k].unrealized_pnl], Len(result))

\* C29: the unrealized P&L reported by computePortfolioSummary equals the
\* sum of the unrealized_pnl of the non-cash rows (to the cent the summary
\* is rounded to), including when the list contains cash rows or shorts.
C29_UnrealizedIsSumOfRows ==
  Summarized =>
    RLe(RAbs(RSub(summary.unrealized_pnl, SumUnrealized)), <<1, 100>>)

\* C29 without cash rows and without shorts, where the two figures do agree
C29_LongOnlyAgrees ==
  ( /\ Summarized
    /\ \A k \in 1..Len(result) :
         ~isCashAsset(result[k].ticker) /\ result[k].quantity[1] > 0 ) =>
    RLe(RAbs(RSub(summary.unrealized_pnl, SumUnrealized)), <<1, 100>>)

(***************************************************************************)
(* The display currency does not change what a row says                    *)
(***************************************************************************)
\* the row enrichPositions computes for the position behind row in the
\* other display currency
OtherDisplay(row) ==
  EnrichRow(positions[Source(row)], priceMap, fxRateUSDTHB,
            IF displayCurrency = "USD" THEN "THB" ELSE "USD")

Sign(x) == IF x[1] > 0 THEN 1 ELSE IF x[1] < 0 THEN -1 ELSE 0

\* the currency of the quote of ticker t, USD when there is none
PriceCurrency(t) ==
  IF PriceData(priceMap, t).currency = "" THEN "USD"
  ELSE PriceData(priceMap, t).currency

\* C30: for a fixed positive fxRate, enrichPositions yields the same
\* unrealizedPnLPct and the same sign of unrealizedPnL whether
\* displayCurrency is USD or THB, for every combination of price currency
\* and cost currency in {USD, THB}.
C30_DisplayCurrencyInvariant ==
  (Enriched /\ fxRateUSDTHB[1] > 0) =>
    \A k \in 1..Len(result) :
      /\ OtherDisplay(result[k]).unrealized_pnl_pct = result[k].unrealized_pnl_pct
      /\ Sign(OtherDisplay(result[k]).unrealized_pnl) = Sign(result[k].unrealized_pnl)

\* rows for each of the four combinations of price and cost currency, each
\* with a percentage other than 0
C30_Witness ==
  /\ Enriched
  /\ fxRateUSDTHB[1] > 0
  /\ \A pcur \in {"USD", "THB"} : \A ccur \in {"USD", "THB"} :
       \E p \in PriceMaps : \E k \in 1..Len(HeldRows) :
         /\ HeldRows[k].cost_currency = ccur
         /\ \E q \in 1..Len(p) :
              p[q].ticker = HeldRows[k].ticker /\ p[q].currency = pcur
  /\ \E k \in 1..Len(result) :
       /\ Source(result[k]) \in 1..Len(positions)
       /\ positions[Source(result[k])].cost_currency = "THB"
       /\ PriceCurrency(result[k].ticker) = "USD"
       /\ result[k].unrealized_pnl_pct # Zero
  /\ \E k \in 1..Len(result) :
       /\ positions[Source(result[k])].cost_currency = "USD"
       /\ PriceCurrency(result[k].ticker) = "THB"
       /\ result[k].unrealized_pnl_pct # Zero

====
